---- MODULE Spec2Model ----
(***************************************************************************)
(* Attendance derivation engine of the attendance application:             *)
(* the biometric check-in / check-out ledger (views.face_attendance_api,   *)
(* face_recognition_helpers.mark_attendance), AttendanceRecord.save with   *)
(* its status / late-duration derivation and reactive payroll recompute,   *)
(* Shift.save (single active shift) and BulkHoliday expansion.             *)
(*                                                                         *)
(* Instants are whole seconds on the Asia/Dhaka wall clock (a fixed UTC+6  *)
(* offset, so astimezone() never changes an instant); a calendar date is   *)
(* the day number of the instant; money is in minor units (1/100 BDT).     *)
(***************************************************************************)
EXTENDS Integers, Sequences, FiniteSets, TLC

\* ------------------------------------------------------------------ bounds
MaxTicks == 3          \* clock advances in one behaviour
MaxPk == 3             \* attendance rows ever inserted in one behaviour
StartDay == 30         \* day number (0 = 1 January) of the first instant
MaxManual == 1         \* admin edits of a record in one behaviour
MaxPayRecs == 2        \* records an operator enters for one employee

\* ------------------------------------------------------- program constants
SecondsPerHour == 3600
SecondsPerMinute == 60
CooldownHours == 1
CooldownMinutes == 60
FineGroupSize == 3
SalaryDays == 30
BonusAmount == 100000
DaysPerYear == 365
DaySeconds == 24 * SecondsPerHour

NoTime == -1           \* a NULL DateTimeField
NoDur == -1            \* a NULL DurationField
NoShift == 0           \* a NULL shift foreign key
NoStatus == "null"     \* a NULL status
NoDevice == "null"     \* a NULL device_id
NoPk == 0              \* pk of an unsaved instance

ManualStatuses == {"On Leave", "Holiday", "Off Day"}
Statuses == {"Present", "Early Leave", "Absent", "Half Day", "On Leave",
             "Holiday", "Pending", "Off Day"}

FineReason == "Attendance Issues Fine"
BonusReason == "100% On Time Bonus"

\* ------------------------------------------------------------ environment
Employees == {"e1", "e2", "e3"}
\* monthly_salary in minor units; e3 has the field's default, 0.00
Salary == [e \in Employees |->
             IF e = "e1" THEN 300000 ELSE IF e = "e2" THEN 100000 ELSE 0]
\* the order in which Employee.objects.all() yields the rows
EmployeeOrder == <<"e1", "e2", "e3">>
\* employees with a registered face encoding
Enrolled == {"e1"}

\* Shift rows by pk; a smaller pk has the smaller name.  shift_start in
\* seconds of the day, present_hours / half_day_hours in 1/100 hour.
ShiftIds == {1, 2}
\* Shift objects a derivation function can be handed: the rows above, a
\* shift that starts at midnight, a late shift whose grace period ends
\* on the next calendar day, and a shift whose half_day_hours is 0.00
PolicyIds == ShiftIds \cup {3, 4, 5}
ShiftCfg == [s \in PolicyIds |->
               IF s = 1
               THEN [shift_start |-> 9 * SecondsPerHour, allowed_late_minutes |-> 0,
                     present_hours |-> 800, half_day_hours |-> 400]
               ELSE IF s = 2
               THEN [shift_start |-> 9 * SecondsPerHour, allowed_late_minutes |-> 30,
                     present_hours |-> 100, half_day_hours |-> 50]
               ELSE IF s = 3
               THEN [shift_start |-> 0, allowed_late_minutes |-> 0,
                     present_hours |-> 200, half_day_hours |-> 200]
               ELSE IF s = 4
               THEN [shift_start |-> 23 * SecondsPerHour + 30 * SecondsPerMinute,
                     allowed_late_minutes |-> 45,
                     present_hours |-> 500, half_day_hours |-> 100]
               ELSE [shift_start |-> 9 * SecondsPerHour, allowed_late_minutes |-> 0,
                     present_hours |-> 400, half_day_hours |-> 0]]

\* device_id values a terminal sends ("" when the field is missing)
Devices == {"", "d1"}

\* amounts by which the wall clock advances between operations: 30 minutes,
\* and 30 minutes 30 seconds
ClockSteps == {30 * SecondsPerMinute, 30 * SecondsPerMinute + 30}
StartInstant == StartDay * DaySeconds + 9 * SecondsPerHour

\* One holiday definition: the first two days, scope 'custom' with e1.
HolidayIds == {1}
\* A second one overlaps it: the second and third day, a department with
\* e1 and e2 in it.
HolidayDefs == {1, 2}
HolidayCfg == [h \in HolidayDefs |->
                 IF h = 1
                 THEN [start_date |-> StartDay, end_date |-> StartDay + 1,
                       employees |-> {"e1"}]
                 ELSE [start_date |-> StartDay + 1, end_date |-> StartDay + 2,
                       employees |-> {"e1", "e2"}]]

\* the days on which e1 may have a record when the first holiday is saved
HolidayDays == HolidayCfg[2].end_date - StartDay + 1

\* pks the expansions may use up
HolidayPkLimit == HolidayDays + MaxPk + 3

VARIABLES
    now,        \* the wall clock
    ticks,      \* clock advances so far
    shifts,     \* Shift table: pk -> [exists, is_active]
    recs,       \* AttendanceRecord table: a set of rows
    nextPk,     \* next AttendanceRecord pk
    adjs,       \* SalaryAdjustment table: a set of rows
    holidays,   \* BulkHoliday table: pk -> [exists, is_active]
    resp,       \* response of the operation that ran last
    budget,     \* operations left: [manual]
    procs,      \* concurrent capture requests: process -> local state
    hproc,      \* a concurrent holiday expansion: local state
    txns,       \* concurrent Shift.save transactions: process -> local state
    observed,   \* what the concurrent reader of active shifts last saw
    calc,       \* one evaluation of the derivation functions: inputs, results
    pay         \* the payroll recompute that ran last

vars == <<now, ticks, shifts, recs, nextPk, adjs, holidays, resp, budget,
          procs, hproc, txns, observed, calc, pay>>

\* ----------------------------------------------------------------- dates
DateOf(t) == t \div DaySeconds

MonthStartDays == <<0, 31, 59, 90, 120, 151, 181, 212, 243, 273, 304, 334>>

\* (year, month) of a day number, as one number
MonthOf(d) ==
    12 * (d \div DaysPerYear)
      + Cardinality({i \in 1..12 : MonthStartDays[i] <= d % DaysPerYear})

\* ---------------------------------------------------------------- shifts
ActiveShifts(sh) == {s \in ShiftIds : sh[s].exists /\ sh[s].is_active}

\* Shift.Meta.ordering = ("-is_active", "name"): the first active row
GetActiveShift(sh) ==
    IF ActiveShifts(sh) = {} THEN NoShift
    ELSE CHOOSE s \in ActiveShifts(sh) : \A o \in ActiveShifts(sh) : s <= o

\* variant: the active shift wins over the record's own shift
EffectiveShiftActiveFirst(r, sh) ==
    IF GetActiveShift(sh) # NoShift THEN GetActiveShift(sh) ELSE r.shift

EffectiveShift(r, sh) ==
    IF r.shift # NoShift THEN r.shift ELSE GetActiveShift(sh)

\* ------------------------------------------------------ record derivation
\* variant: the grace period is not added
ComputeLateDurationNoGrace(r, shift) ==
    IF r.checkin_time = NoTime \/ shift = NoShift THEN NoDur
    ELSE LET shift_start_dt == r.date * DaySeconds + ShiftCfg[shift].shift_start
         IN  IF r.checkin_time > shift_start_dt
             THEN r.checkin_time - shift_start_dt
             ELSE 0

\* variant: the difference is returned without the comparison
ComputeLateDurationSigned(r, shift) ==
    IF r.checkin_time = NoTime \/ shift = NoShift THEN NoDur
    ELSE LET shift_start_dt == r.date * DaySeconds + ShiftCfg[shift].shift_start
             allowed_end == shift_start_dt
                 + ShiftCfg[shift].allowed_late_minutes * SecondsPerMinute
         IN  r.checkin_time - allowed_end

ComputeLateDuration(r, shift) ==
    IF r.checkin_time = NoTime \/ shift = NoShift THEN NoDur
    ELSE LET shift_start_dt == r.date * DaySeconds + ShiftCfg[shift].shift_start
             allowed_end == shift_start_dt
                 + ShiftCfg[shift].allowed_late_minutes * SecondsPerMinute
         IN  IF r.checkin_time > allowed_end
             THEN r.checkin_time - allowed_end
             ELSE 0

IsLate(r, shift) ==
    LET dur == ComputeLateDuration(r, shift)
    IN  dur # NoDur /\ dur > 0

IsLateIndicator(r, sh) ==
    LET shift == EffectiveShift(r, sh)
    IN  IF shift # NoShift THEN IsLate(r, shift) ELSE FALSE

\* worked_hours >= float(hours), with hours in 1/100 hour
WorkedAtLeast(r, hundredths) ==
    (r.checkout_time - r.checkin_time) * 100 >= hundredths * SecondsPerHour

\* variant: a late check-in is never Present
ComputeStatusLateAware(r, sh) ==
    LET shift == EffectiveShift(r, sh)
    IN  IF r.checkin_time = NoTime /\ r.checkout_time = NoTime THEN "Absent"
        ELSE IF r.checkin_time = NoTime \/ r.checkout_time = NoTime THEN "Pending"
        ELSE IF /\ shift # NoShift
                /\ WorkedAtLeast(r, ShiftCfg[shift].present_hours)
                /\ ~ IsLate(r, shift)
             THEN "Present"
        ELSE IF shift # NoShift /\ WorkedAtLeast(r, ShiftCfg[shift].half_day_hours)
             THEN "Half Day"
        ELSE "Early Leave"

\* compute_status: the status it returns
ComputeStatus(r, sh) ==
    LET shift == EffectiveShift(r, sh)
    IN  IF r.checkin_time = NoTime /\ r.checkout_time = NoTime THEN "Absent"
        ELSE IF r.checkin_time = NoTime \/ r.checkout_time = NoTime THEN "Pending"
        ELSE IF shift # NoShift /\ WorkedAtLeast(r, ShiftCfg[shift].present_hours)
             THEN "Present"
        ELSE IF shift # NoShift /\ WorkedAtLeast(r, ShiftCfg[shift].half_day_hours)
             THEN "Half Day"
        ELSE "Early Leave"

\* variant: only On Leave is kept, every other status is computed
DeriveKeepLeaveOnly(r, sh) ==
    LET r1 == IF r.pk = NoPk /\ r.shift = NoShift
              THEN [r EXCEPT !.shift = GetActiveShift(sh)]
              ELSE r
        r2 == IF r1.status # "On Leave"
              THEN [r1 EXCEPT
                      !.late_duration = ComputeLateDuration(r1, EffectiveShift(r1, sh)),
                      !.status = ComputeStatus(r1, sh)]
              ELSE r1
    IN  IF r2.late_duration = NoDur
        THEN [r2 EXCEPT !.late_duration =
                          ComputeLateDuration(r2, EffectiveShift(r2, sh))]
        ELSE r2

\* AttendanceRecord.save up to super().save(): the row that is written.
\* r is the in-memory instance, r.pk = NoPk for an instance never saved.
Derive(r, sh) ==
    LET r1 == IF r.pk = NoPk /\ r.shift = NoShift
              THEN [r EXCEPT !.shift = GetActiveShift(sh)]
              ELSE r
        r2 == IF r1.status \notin ManualStatuses
              THEN [r1 EXCEPT
                      !.late_duration = ComputeLateDuration(r1, EffectiveShift(r1, sh)),
                      !.status = ComputeStatus(r1, sh)]
              ELSE r1
    IN  IF r2.late_duration = NoDur
        THEN [r2 EXCEPT !.late_duration =
                          ComputeLateDuration(r2, EffectiveShift(r2, sh))]
        ELSE r2

\* super().save(): INSERT of a new row, else UPDATE of the row with this pk
\* (INSERT again when that row is gone)
Persist(rs, r, pk) ==
    {x \in rs : x.pk # pk} \cup {[r EXCEPT !.pk = pk]}

NewRecord(e, d) ==
    [pk |-> NoPk, employee |-> e, date |-> d, shift |-> NoShift,
     checkin_time |-> NoTime, checkout_time |-> NoTime, device_id |-> NoDevice,
     status |-> NoStatus, late_duration |-> NoDur]

\* variant: the records of the employee, whatever their date
RecordsOfAnyDate(rs, e, d) == {r \in rs : r.employee = e}

RecordsOf(rs, e, d) == {r \in rs : r.employee = e /\ r.date = d}

\* ---------------------------------------------------------------- payroll
\* Decimal quantized to two places on write (ROUND_HALF_EVEN): n / d
RoundHalfEven(n, d) ==
    LET q == n \div d
        r == n % d
    IN  IF 2 * r < d THEN q
        ELSE IF 2 * r > d THEN q + 1
        ELSE IF q % 2 = 0 THEN q ELSE q + 1

MonthRecords(rs, e, m) == {r \in rs : r.employee = e /\ MonthOf(r.date) = m}

\* variant: Holiday and Off Day records are counted too
CountedRecordsAll(rs, e, m) == MonthRecords(rs, e, m)

CountedRecords(rs, e, m) ==
    {r \in MonthRecords(rs, e, m) : r.status \notin {"Holiday", "Off Day"}}

LateDays(rs, e, m, sh) ==
    Cardinality({r \in CountedRecords(rs, e, m) : IsLateIndicator(r, sh)})

FineGroups(rs, e, m, sh) ==
    IF LateDays(rs, e, m, sh) >= FineGroupSize
    THEN LateDays(rs, e, m, sh) \div FineGroupSize
    ELSE 0

\* fine_amount > 0
FineDue(rs, e, m, sh) == Salary[e] * FineGroups(rs, e, m, sh) > 0

FineRow(rs, e, m, sh) ==
    [employee |-> e, month |-> m, adjustment_type |-> "fine",
     reason |-> FineReason,
     amount |-> RoundHalfEven(Salary[e] * FineGroups(rs, e, m, sh), SalaryDays),
     is_automatic |-> TRUE, comments |-> LateDays(rs, e, m, sh)]

\* bonus_amount > 0
BonusDue(rs, e, m, sh) ==
    /\ LateDays(rs, e, m, sh) = 0
    /\ \A r \in CountedRecords(rs, e, m) : r.status = "Present"
    /\ CountedRecords(rs, e, m) # {}

BonusRow(e, m) ==
    [employee |-> e, month |-> m, adjustment_type |-> "bonus",
     reason |-> BonusReason, amount |-> BonusAmount,
     is_automatic |-> TRUE, comments |-> 0]

\* rows with the key of unique_together
SameKey(as, row) ==
    {a \in as : /\ a.employee = row.employee
                /\ a.month = row.month
                /\ a.reason = row.reason
                /\ a.adjustment_type = row.adjustment_type}

\* variant: rows with the key are taken whatever their automatic flag
AutoRowsAnyFlag(as, row) == SameKey(as, row)

\* variant: the rows are looked up without the month
AutoRowsAnyMonth(as, row) ==
    {a \in as : /\ a.employee = row.employee
                /\ a.reason = row.reason
                /\ a.adjustment_type = row.adjustment_type
                /\ a.is_automatic}

AutoRows(as, row) == {a \in SameKey(as, row) : a.is_automatic}

\* variant: an update adds the amount to the stored one
UpsertAccumulate(as, row, due) ==
    IF due
    THEN IF AutoRows(as, row) # {}
         THEN [adjs |-> (as \ AutoRows(as, row))
                          \cup {[row EXCEPT !.amount = @ + a.amount] :
                                   a \in AutoRows(as, row)},
               failed |-> FALSE, writes |-> 1]
         ELSE IF SameKey(as, row) # {}
              THEN [adjs |-> as, failed |-> TRUE, writes |-> 0]
              ELSE [adjs |-> as \cup {row}, failed |-> FALSE, writes |-> 1]
    ELSE [adjs |-> as \ AutoRows(as, row), failed |-> FALSE,
          writes |-> IF AutoRows(as, row) # {} THEN 1 ELSE 0]

\* One automatic row: update it, create it, or delete it.  The create
\* raises IntegrityError when a manual row holds the key.  writes is the
\* number of rows the branch saved, created or deleted.
Upsert(as, row, due) ==
    IF due
    THEN IF AutoRows(as, row) # {}
         THEN [adjs |-> (as \ AutoRows(as, row)) \cup {row}, failed |-> FALSE,
               writes |-> 1]
         ELSE IF SameKey(as, row) # {}
              THEN [adjs |-> as, failed |-> TRUE, writes |-> 0]
              ELSE [adjs |-> as \cup {row}, failed |-> FALSE, writes |-> 1]
    ELSE [adjs |-> as \ AutoRows(as, row), failed |-> FALSE,
          writes |-> IF AutoRows(as, row) # {} THEN 1 ELSE 0]

\* _trigger_salary_recalculation for employee e and month m on the records
\* rs: the fine, then the bonus; an exception ends it and is swallowed.
RecalcMonth(rs, as, e, m, sh) ==
    LET fine == Upsert(as, FineRow(rs, e, m, sh), FineDue(rs, e, m, sh))
        bonus == Upsert(fine.adjs, BonusRow(e, m), BonusDue(rs, e, m, sh))
    IN  IF fine.failed THEN fine
        ELSE [bonus EXCEPT !.writes = @ + fine.writes]

\* _trigger_salary_recalculation of a record of employee e on date d
Recalc(rs, as, e, d, sh) == RecalcMonth(rs, as, e, MonthOf(d), sh).adjs

\* the body of the employee loop of process_monthly_salary_adjustments: the
\* bonus, then the fine; an exception leaves the loop
BulkEmployee(rs, as, e, m, sh) ==
    LET bonus == Upsert(as, BonusRow(e, m), BonusDue(rs, e, m, sh))
        fine == Upsert(bonus.adjs, FineRow(rs, e, m, sh), FineDue(rs, e, m, sh))
    IN  IF bonus.failed THEN bonus
        ELSE [fine EXCEPT !.writes = @ + bonus.writes]

\* process_monthly_salary_adjustments(year, month) over the employees es:
\* the table after, whether an exception ended it, and processed_count
RECURSIVE BulkRun(_, _, _, _, _, _)
BulkRun(es, rs, as, m, sh, count) ==
    IF es = <<>> THEN [adjs |-> as, failed |-> FALSE, writes |-> count]
    ELSE LET one == BulkEmployee(rs, as, Head(es), m, sh)
         IN  IF one.failed
             THEN [adjs |-> one.adjs, failed |-> TRUE, writes |-> count + one.writes]
             ELSE BulkRun(Tail(es), rs, one.adjs, m, sh, count + one.writes)

\* the instance r as save leaves it, written under pk
Instance(r, pk, sh) == [Derive(r, sh) EXCEPT !.pk = pk]

\* variant: the recompute runs on the records as they were before the write
SaveRecordRecalcFirst(rs, as, r, pk, sh) ==
    [recs |-> Persist(rs, Derive(r, sh), pk)]
      @@ RecalcMonth(rs, as, r.employee, MonthOf(r.date), sh)

\* AttendanceRecord.save of instance r, written under pk: the tables after
\* (recs, adjs), whether the recompute raised (failed; save swallows the
\* exception) and the rows the recompute wrote (writes)
SaveRecord(rs, as, r, pk, sh) ==
    LET rs1 == Persist(rs, Derive(r, sh), pk)
    IN  [recs |-> rs1] @@ RecalcMonth(rs1, as, r.employee, MonthOf(r.date), sh)

\* save of instance r by the add or change view of a ModelAdmin, which runs
\* the request in one transaction: a database error raised inside it, also
\* one that save swallowed, marks the transaction for rollback, the request
\* ends with an error and nothing it wrote is kept
AdminSave(rs, as, r, pk, sh) ==
    CHOOSE out \in
        {IF w.failed THEN [recs |-> rs, adjs |-> as, failed |-> TRUE]
         ELSE [recs |-> w.recs, adjs |-> w.adjs, failed |-> FALSE] :
            w \in {SaveRecord(rs, as, r, pk, sh)}} : TRUE

\* ------------------------------------------------------- biometric events
NoResp == [check_type |-> "-", employee |-> "-", cooldown_remaining |-> 0]

Resp(kind, e, left) ==
    [check_type |-> kind, employee |-> e, cooldown_remaining |-> left]

\* filter(employee, date).first() under ordering ("-date", "-checkin_time"):
\* the latest check-in, or a row without check-in where NULLs sort first
FirstRecords(rs, e, d) ==
    {r \in RecordsOf(rs, e, d) :
        \/ r.checkin_time = NoTime
        \/ \A o \in RecordsOf(rs, e, d) : o.checkin_time <= r.checkin_time}

\* int(x / y): truncation toward zero
IntDiv(x, y) == IF x >= 0 THEN x \div y ELSE -((-x) \div y)

\* variant: the window is half an hour
InCooldownHalfHour(r, t) ==
    /\ r.pk # NoPk
    /\ r.checkin_time # NoTime
    /\ 2 * (t - r.checkin_time) < CooldownHours * SecondsPerHour

\* variant: an event exactly at the end of the window is still rejected
InCooldownInclusive(r, t) ==
    /\ r.pk # NoPk
    /\ r.checkin_time # NoTime
    /\ t - r.checkin_time <= CooldownHours * SecondsPerHour

\* the view's test on today_record (r = a row, or NoPk for None) at instant t
InCooldown(r, t) ==
    /\ r.pk # NoPk
    /\ r.checkin_time # NoTime
    /\ t - r.checkin_time < CooldownHours * SecondsPerHour

\* variant: the elapsed minutes are rounded up
MinutesLeftCeil(r, t) ==
    CooldownMinutes
      - IntDiv(t - r.checkin_time + SecondsPerMinute - 1, SecondsPerMinute)

MinutesLeft(r, t) ==
    CooldownMinutes - IntDiv(t - r.checkin_time, SecondsPerMinute)

\* device_id or record.device_id
DeviceOf(dev, r) == IF dev # "" THEN dev ELSE r.device_id

\* mark_attendance after get_or_create returned the instance r (row pk):
\* the branch on the instance's timestamps
MarkBranch(r) ==
    IF r.checkin_time = NoTime THEN "IN"
    ELSE IF r.checkout_time = NoTime THEN "OUT"
    ELSE "NONE"

\* variant: the check-in branch stamps both timestamps
MarkedRecordBoth(r, dev, t) ==
    IF MarkBranch(r) = "IN"
    THEN [r EXCEPT !.checkin_time = t, !.checkout_time = t,
                   !.device_id = DeviceOf(dev, r)]
    ELSE IF MarkBranch(r) = "OUT"
    THEN [r EXCEPT !.checkout_time = t, !.device_id = DeviceOf(dev, r)]
    ELSE r

MarkedRecord(r, dev, t) ==
    IF MarkBranch(r) = "IN"
    THEN [r EXCEPT !.checkin_time = t, !.device_id = DeviceOf(dev, r)]
    ELSE IF MarkBranch(r) = "OUT"
    THEN [r EXCEPT !.checkout_time = t, !.device_id = DeviceOf(dev, r)]
    ELSE r

\* the tables after the branch ran on instance r
MarkWrite(rs, as, r, dev, t, sh) ==
    IF MarkBranch(r) = "NONE"
    THEN [recs |-> rs, adjs |-> as]
    ELSE SaveRecord(rs, as, MarkedRecord(r, dev, t), r.pk, sh)

\* get_or_create's create(): the new instance and the tables after its
\* save. get_or_create runs create() in a transaction of its own, which is
\* rolled back when a database error was raised inside it, also one that
\* save swallowed; the instance keeps its pk and its derived fields
CreateRecord(rs, as, e, d, pk, sh) ==
    CHOOSE out \in
        {[recs |-> IF saved.failed THEN rs ELSE saved.recs,
          adjs |-> IF saved.failed THEN as ELSE saved.adjs,
          rec |-> CHOOSE r \in saved.recs : r.pk = pk] :
            saved \in {SaveRecord(rs, as, NewRecord(e, d), pk, sh)}} : TRUE

Tick(d) ==
    /\ ticks < MaxTicks
    /\ now' = now + d
    /\ ticks' = ticks + 1
    /\ resp' = NoResp
    /\ UNCHANGED <<calc, pay, shifts, recs, nextPk, adjs, holidays, budget,
                   procs, hproc, txns, observed>>

\* face_attendance_api after the match returned employee e: the cooldown
\* test and mark_attendance
CaptureLedger(e, dev) ==
    LET today == DateOf(now)
        found == RecordsOf(recs, e, today)
    IN  /\ \E first \in (IF found = {} THEN {NewRecord(e, today)}
                         ELSE FirstRecords(recs, e, today)) :
              IF InCooldown(first, now)
              THEN /\ resp' = Resp("cooldown", e, MinutesLeft(first, now))
                   /\ UNCHANGED <<recs, adjs, nextPk>>
              ELSE IF Cardinality(found) > 1
              THEN \* get() raises MultipleObjectsReturned
                   /\ resp' = Resp("error", e, 0)
                   /\ UNCHANGED <<recs, adjs, nextPk>>
              ELSE IF found = {}
              THEN /\ nextPk <= MaxPk
                   /\ LET c == CreateRecord(recs, adjs, e, today, nextPk, shifts)
                          w == MarkWrite(c.recs, c.adjs, c.rec, dev, now, shifts)
                      IN  /\ recs' = w.recs
                          /\ adjs' = w.adjs
                          /\ resp' = Resp(MarkBranch(c.rec), e, 0)
                   /\ nextPk' = nextPk + 1
              ELSE LET r == CHOOSE x \in found : TRUE
                       w == MarkWrite(recs, adjs, r, dev, now, shifts)
                   IN  /\ recs' = w.recs
                       /\ adjs' = w.adjs
                       /\ resp' = Resp(MarkBranch(r), e, 0)
                       /\ UNCHANGED nextPk
        /\ UNCHANGED <<pay, now, ticks, shifts, holidays, budget,
                       procs, hproc, txns, observed>>

\* face_attendance_api for a capture recognised as employee e, run alone
BiometricEvent(e, dev) ==
    /\ CaptureLedger(e, dev)
    /\ UNCHANGED calc

\* ------------------------------------------------------------ manual edit
\* the admin change form (or an import row) saving an existing record with
\* the timestamps and status the operator entered
ManualSave(r, ci, co, st) ==
    /\ budget.manual > 0
    /\ r \in recs
    /\ LET w == SaveRecord(recs, adjs,
                           [r EXCEPT !.checkin_time = ci, !.checkout_time = co,
                                     !.status = st],
                           r.pk, shifts)
       IN  /\ recs' = w.recs
           /\ adjs' = w.adjs
    /\ budget' = [budget EXCEPT !.manual = @ - 1]
    /\ resp' = NoResp
    /\ UNCHANGED <<calc, pay, now, ticks, shifts, nextPk, holidays,
                   procs, hproc, txns, observed>>

\* ------------------------------------------------------------- Shift.save
\* variant: the other rows are left as they are
ShiftsAfterSaveNoClear(sh, s, active) ==
    [x \in ShiftIds |->
        IF x = s THEN [exists |-> TRUE, is_active |-> active] ELSE sh[x]]

\* the Shift table after save() of shift s with is_active = active: the
\* other active rows are cleared in the same transaction
ShiftsAfterSave(sh, s, active) ==
    [x \in ShiftIds |->
        IF x = s THEN [exists |-> TRUE, is_active |-> active]
        ELSE IF active /\ sh[x].exists /\ sh[x].is_active
        THEN [sh[x] EXCEPT !.is_active = FALSE]
        ELSE sh[x]]

\* save of shift s with is_active = active, run alone
ShiftSave(s, active) ==
    /\ shifts' = ShiftsAfterSave(shifts, s, active)
    /\ resp' = NoResp
    /\ UNCHANGED <<calc, pay, now, ticks, recs, nextPk, adjs, holidays, budget,
                   procs, hproc, txns, observed>>

\* ------------------------------------------------------------ BulkHoliday
RECURSIVE SetToSeq(_)
SetToSeq(S) ==
    IF S = {} THEN <<>>
    ELSE LET x == CHOOSE y \in S : TRUE
         IN  <<x>> \o SetToSeq(S \ {x})

HolidayRecord(e, d) == [NewRecord(e, d) EXCEPT !.status = "Holiday"]

\* variant: only a record that holds a check-in counts as existing
ProcessEmployeeStamped(st, d, e, sh) ==
    IF {r \in RecordsOf(st.recs, e, d) : r.checkin_time # NoTime} = {}
    THEN LET w == SaveRecord(st.recs, st.adjs, HolidayRecord(e, d), st.nextPk, sh)
         IN  [recs |-> w.recs, adjs |-> w.adjs, nextPk |-> st.nextPk + 1]
    ELSE st

\* the body of the employee loop of process_holiday_records for employee e
\* and date d; st = [recs, adjs, nextPk]
ProcessEmployee(st, d, e, sh) ==
    IF RecordsOf(st.recs, e, d) = {}
    THEN LET w == SaveRecord(st.recs, st.adjs, HolidayRecord(e, d), st.nextPk, sh)
         IN  [recs |-> w.recs, adjs |-> w.adjs, nextPk |-> st.nextPk + 1]
    ELSE st

\* the employee loop of process_holiday_records for one date
RECURSIVE ProcessEmployees(_, _, _, _)
ProcessEmployees(st, d, es, sh) ==
    CHOOSE out \in
        {IF es = <<>> THEN s
         ELSE ProcessEmployees(ProcessEmployee(s, d, Head(es), sh),
                               d, Tail(es), sh) : s \in {st}} : TRUE

\* the date loop of process_holiday_records
RECURSIVE ProcessDates(_, _, _, _, _)
ProcessDates(st, d, last, emps, sh) ==
    CHOOSE out \in
        {IF d > last THEN s
         ELSE ProcessDates(ProcessEmployees(s, d, SetToSeq(emps), sh),
                           d + 1, last, emps, sh) : s \in {st}} : TRUE

\* variant: the scope is every employee
ProcessHolidayRecordsAll(h, rs, as, npk, sh) ==
    ProcessDates([recs |-> rs, adjs |-> as, nextPk |-> npk],
                 HolidayCfg[h].start_date, HolidayCfg[h].end_date,
                 Employees, sh)

\* process_holiday_records of an active holiday
ProcessHolidayRecords(h, rs, as, npk, sh) ==
    ProcessDates([recs |-> rs, adjs |-> as, nextPk |-> npk],
                 HolidayCfg[h].start_date, HolidayCfg[h].end_date,
                 HolidayCfg[h].employees, sh)

\* variant: every record of the scope and the range goes, whatever its status
RemoveHolidayRecordsAnyStatus(h, rs) ==
    {r \in rs : ~ (/\ r.employee \in HolidayCfg[h].employees
                   /\ r.date >= HolidayCfg[h].start_date
                   /\ r.date <= HolidayCfg[h].end_date)}

\* remove_holiday_records: the records left
RemoveHolidayRecords(h, rs) ==
    {r \in rs : ~ (/\ r.employee \in HolidayCfg[h].employees
                   /\ r.date >= HolidayCfg[h].start_date
                   /\ r.date <= HolidayCfg[h].end_date
                   /\ r.status = "Holiday")}

\* BulkHoliday.save with is_active = active
HolidaySave(h, active) ==
    /\ holidays' = [holidays EXCEPT ![h] = [exists |-> TRUE, is_active |-> active]]
    /\ IF active
       THEN LET st == ProcessHolidayRecords(h, recs, adjs, nextPk, shifts)
            IN  /\ st.nextPk <= HolidayPkLimit + 1
                /\ recs' = st.recs
                /\ adjs' = st.adjs
                /\ nextPk' = st.nextPk
       ELSE /\ recs' = RemoveHolidayRecords(h, recs)
            /\ UNCHANGED <<adjs, nextPk>>
    /\ resp' = NoResp
    /\ UNCHANGED <<calc, pay, now, ticks, shifts, budget, procs, hproc, txns, observed>>

\* ------------------------------------------------------------------ Init
Procs == {1, 2}

\* a capture request: its position, the matched employee, the device, the
\* instant mark_attendance read, its in-memory record and its response
IdleProc ==
    [pc |-> "idle", employee |-> "-", dev |-> "", mnow |-> 0,
     rec |-> NewRecord("-", 0), result |-> NoResp]

\* a holiday expansion: its position, the holiday and the index of the
\* (date, employee) pair its loops have reached
IdleHoliday == [pc |-> "idle", holiday |-> 0, i |-> 0]

\* a Shift.save transaction: its position, the shift it activates and the
\* rows its UPDATE matched
IdleTxn == [pc |-> "idle", target |-> NoShift, clear |-> {}]

\* a bonus an administrator entered by hand for the first month
ManualRow ==
    [employee |-> "e1", month |-> MonthOf(StartDay), adjustment_type |-> "bonus",
     reason |-> "Festival Bonus", amount |-> 500000,
     is_automatic |-> FALSE, comments |-> 0]

InitShifts == [s \in ShiftIds |-> [exists |-> s = 1, is_active |-> s = 1]]

\* no function evaluation in progress
NoCalc ==
    [pc |-> "idle", rec |-> NewRecord("-", 0), dev |-> "", at |-> 0,
     late |-> NoDur, status |-> NoStatus,
     saved |-> NewRecord("-", 0), marked |-> NewRecord("-", 0)]

\* no payroll recompute ran since the last other operation
\* no instance
NoRec == [NewRecord("-", 0) EXCEPT !.pk = NoPk]

NoPay ==
    [kind |-> "none", employee |-> "-", month |-> 0, failed |-> FALSE,
     rec |-> NoRec, count |-> 0]

InitCommon ==
    /\ now = StartInstant
    /\ ticks = 0
    /\ recs = {}
    /\ nextPk = 1
    /\ adjs = {ManualRow}
    /\ holidays = [h \in HolidayIds |-> [exists |-> FALSE, is_active |-> FALSE]]
    /\ resp = NoResp
    /\ procs = [p \in Procs |-> IdleProc]
    /\ hproc = IdleHoliday
    /\ txns = [p \in Procs |-> IdleTxn]
    /\ observed = {}
    /\ pay = NoPay

\* One shift exists and is active; operations run one at a time.
Init ==
    /\ InitCommon
    /\ calc = NoCalc
    /\ shifts = InitShifts
    /\ budget = [manual |-> MaxManual]

\* what an operator enters: the check-in kept or cleared, the check-out
\* kept, cleared or set to the current instant, the status left to the
\* derivation ("Absent" is overwritten on save) or set to On Leave
ManualCheckins(r) == {NoTime, r.checkin_time}
ManualCheckouts(r) == {NoTime, r.checkout_time, now}
ManualStatusInputs == {"Absent", "On Leave"}

ManualEdit ==
    \E r \in recs, st \in ManualStatusInputs :
       \E ci \in ManualCheckins(r), co \in ManualCheckouts(r) :
          ManualSave(r, ci, co, st)

Next ==
    \/ \E d \in ClockSteps : Tick(d)
    \/ \E e \in Enrolled, dev \in Devices : BiometricEvent(e, dev)
    \/ ManualEdit
    \/ \E s \in ShiftIds, active \in BOOLEAN : ShiftSave(s, active)

Spec == Init /\ [][Next]_vars

\* ------------------------------------------- concurrent capture requests
\* Each request is a sequence of database statements; the steps of two
\* requests interleave.  The view: read today_record, test the cooldown.
ReqView(p, e, dev) ==
    /\ procs[p].pc = "idle"
    /\ \E first \in (IF RecordsOf(recs, e, DateOf(now)) = {}
                      THEN {NewRecord(e, DateOf(now))}
                      ELSE FirstRecords(recs, e, DateOf(now))) :
          procs' = [procs EXCEPT ![p] =
                      IF InCooldown(first, now)
                      THEN [@ EXCEPT !.pc = "done", !.employee = e, !.dev = dev,
                                     !.result = Resp("cooldown", e,
                                                     MinutesLeft(first, now))]
                      ELSE [@ EXCEPT !.pc = "mark", !.employee = e, !.dev = dev]]
    /\ UNCHANGED <<calc, pay, now, ticks, shifts, recs, nextPk, adjs, holidays, resp,
                   budget, hproc, txns, observed>>

\* mark_attendance: dhaka_now() and the get() of get_or_create
MarkGet(p) ==
    LET e == procs[p].employee
        found == RecordsOf(recs, e, DateOf(now))
    IN  /\ procs[p].pc = "mark"
        /\ procs' = [procs EXCEPT ![p] =
                IF Cardinality(found) > 1
                THEN [@ EXCEPT !.pc = "done", !.mnow = now,
                               !.result = Resp("error", e, 0)]
                ELSE IF found = {}
                THEN [@ EXCEPT !.pc = "create", !.mnow = now]
                ELSE [@ EXCEPT !.pc = "branch", !.mnow = now,
                               !.rec = CHOOSE r \in found : TRUE]]
        /\ UNCHANGED <<calc, pay, now, ticks, shifts, recs, nextPk, adjs, holidays, resp,
                       budget, hproc, txns, observed>>

\* the create() of get_or_create, after get() found no row
MarkCreate(p) ==
    /\ procs[p].pc = "create"
    /\ nextPk <= MaxPk
    /\ LET c == CreateRecord(recs, adjs, procs[p].employee,
                             DateOf(procs[p].mnow), nextPk, shifts)
       IN  /\ recs' = c.recs
           /\ adjs' = c.adjs
           /\ procs' = [procs EXCEPT ![p] = [@ EXCEPT !.pc = "branch",
                                                      !.rec = c.rec]]
    /\ nextPk' = nextPk + 1
    /\ UNCHANGED <<calc, pay, now, ticks, shifts, holidays, resp, budget,
                   hproc, txns, observed>>

\* the branch on the in-memory record and its save()
MarkSave(p) ==
    /\ procs[p].pc = "branch"
    /\ LET w == MarkWrite(recs, adjs, procs[p].rec, procs[p].dev,
                          procs[p].mnow, shifts)
       IN  /\ recs' = w.recs
           /\ adjs' = w.adjs
    /\ procs' = [procs EXCEPT ![p] =
                   [@ EXCEPT !.pc = "done",
                             !.result = Resp(MarkBranch(procs[p].rec),
                                             procs[p].employee, 0)]]
    /\ UNCHANGED <<calc, pay, now, ticks, shifts, nextPk, holidays, resp, budget,
                   hproc, txns, observed>>

\* ---------------------------------------- a concurrent holiday expansion
\* the (date, employee) pairs in the order of the two loops
RECURSIVE HolidayItemsFrom(_, _)
HolidayItemsFrom(h, d) ==
    IF d > HolidayCfg[h].end_date THEN <<>>
    ELSE LET es == SetToSeq(HolidayCfg[h].employees)
         IN  [k \in 1..Len(es) |-> [date |-> d, employee |-> es[k]]]
               \o HolidayItemsFrom(h, d + 1)

HolidayItems(h) == HolidayItemsFrom(h, HolidayCfg[h].start_date)

\* BulkHoliday.save of an active holiday: super().save(), then the loops
HolStart(h) ==
    /\ hproc.pc = "idle"
    /\ holidays' = [holidays EXCEPT ![h] = [exists |-> TRUE, is_active |-> TRUE]]
    /\ hproc' = [pc |-> "check", holiday |-> h, i |-> 1]
    /\ UNCHANGED <<calc, pay, now, ticks, shifts, recs, nextPk, adjs, resp, budget,
                   procs, txns, observed>>

\* existing = filter(employee, date).first()
HolCheck ==
    /\ hproc.pc = "check"
    /\ LET items == HolidayItems(hproc.holiday)
       IN  hproc' =
             IF hproc.i > Len(items) THEN [hproc EXCEPT !.pc = "done"]
             ELSE IF RecordsOf(recs, items[hproc.i].employee,
                               items[hproc.i].date) = {}
             THEN [hproc EXCEPT !.pc = "create"]
             ELSE [hproc EXCEPT !.i = @ + 1]
    /\ UNCHANGED <<calc, pay, now, ticks, shifts, recs, nextPk, adjs, holidays, resp,
                   budget, procs, txns, observed>>

\* AttendanceRecord.objects.create(status='Holiday')
HolCreate ==
    /\ hproc.pc = "create"
    /\ nextPk <= MaxPk
    /\ LET item == HolidayItems(hproc.holiday)[hproc.i]
           w == SaveRecord(recs, adjs, HolidayRecord(item.employee, item.date),
                           nextPk, shifts)
       IN  /\ recs' = w.recs
           /\ adjs' = w.adjs
    /\ nextPk' = nextPk + 1
    /\ hproc' = [hproc EXCEPT !.pc = "check", !.i = @ + 1]
    /\ UNCHANGED <<calc, pay, now, ticks, shifts, holidays, resp, budget,
                   procs, txns, observed>>

InitConc ==
    /\ InitCommon
    /\ calc = NoCalc
    /\ shifts = InitShifts
    /\ budget = [manual |-> 0]

\* while requests are in flight the clock advances by whole hours, and
\* every terminal sends its device id
ConcSteps == {SecondsPerHour}
ConcDevices == {"d1"}

NextConc ==
    \/ \E d \in ConcSteps : Tick(d)
    \/ \E p \in Procs, e \in Enrolled, dev \in ConcDevices : ReqView(p, e, dev)
    \/ \E p \in Procs : MarkGet(p)
    \/ \E p \in Procs : MarkCreate(p)
    \/ \E p \in Procs : MarkSave(p)
    \/ \E h \in HolidayIds : HolStart(h)
    \/ HolCheck
    \/ HolCreate

\* two capture requests and a holiday expansion, statement by statement
SpecConc == InitConc /\ [][NextConc]_vars

\* ------------------------------------------ concurrent shift activations
\* Shift.save with is_active = True inside transaction.atomic(): the UPDATE
\* matches the rows that are active in the committed table, and the writes
\* of the transaction reach the table when it commits.
TxUpdate(p, s) ==
    /\ txns[p].pc = "idle"
    /\ \A q \in Procs \ {p} : txns[q].target # s
    /\ txns' = [txns EXCEPT ![p] = [pc |-> "updated", target |-> s,
                                    clear |-> ActiveShifts(shifts) \ {s}]]
    /\ UNCHANGED <<calc, pay, now, ticks, shifts, recs, nextPk, adjs, holidays, resp,
                   budget, procs, hproc, observed>>

\* super().save() inside the transaction
TxSaveSelf(p) ==
    /\ txns[p].pc = "updated"
    /\ txns' = [txns EXCEPT ![p] = [@ EXCEPT !.pc = "saved"]]
    /\ UNCHANGED <<calc, pay, now, ticks, shifts, recs, nextPk, adjs, holidays, resp,
                   budget, procs, hproc, observed>>

\* leaving the atomic block
TxCommit(p) ==
    /\ txns[p].pc = "saved"
    /\ shifts' = [x \in ShiftIds |->
                    IF x = txns[p].target THEN [exists |-> TRUE, is_active |-> TRUE]
                    ELSE IF x \in txns[p].clear
                    THEN [shifts[x] EXCEPT !.is_active = FALSE]
                    ELSE shifts[x]]
    /\ txns' = [txns EXCEPT ![p] = [@ EXCEPT !.pc = "done"]]
    /\ UNCHANGED <<calc, pay, now, ticks, recs, nextPk, adjs, holidays, resp,
                   budget, procs, hproc, observed>>

\* a reader: Shift.objects.filter(is_active=True)
ReadActive ==
    /\ observed' = ActiveShifts(shifts)
    /\ UNCHANGED <<calc, pay, now, ticks, shifts, recs, nextPk, adjs, holidays, resp,
                   budget, procs, hproc, txns>>

\* both shifts exist, at most one of them is active
InitAct ==
    /\ InitCommon
    /\ calc = NoCalc
    /\ \E a \in {NoShift} \cup ShiftIds :
          shifts = [s \in ShiftIds |-> [exists |-> TRUE, is_active |-> s = a]]
    /\ budget = [manual |-> 0]

NextAct ==
    \/ \E p \in Procs, s \in ShiftIds : TxUpdate(p, s)
    \/ \E p \in Procs : TxSaveSelf(p)
    \/ \E p \in Procs : TxCommit(p)
    \/ ReadActive

\* two activations of different shifts and a reader
SpecAct == InitAct /\ [][NextAct]_vars

\* ---------------------------------------------- the derivation functions
\* One evaluation of the derivation on an in-memory instance: its late
\* duration and status under its effective shift, the row save() writes, and
\* the row written when a biometric event at instant `at` stamps it first.
CalcOffsets ==
    {0, 1,
     9 * SecondsPerHour - 1, 9 * SecondsPerHour, 9 * SecondsPerHour + 1,
     9 * SecondsPerHour + 30 * SecondsPerMinute,
     9 * SecondsPerHour + 30 * SecondsPerMinute + 1,
     DaySeconds + 15 * SecondsPerMinute,
     DaySeconds + 15 * SecondsPerMinute + 1}

\* worked durations: 2, 5 and 8 hours, and a check-out before the check-in
CalcWorked == {2 * SecondsPerHour, 5 * SecondsPerHour, 8 * SecondsPerHour,
               0 - SecondsPerHour}

CalcCheckins(d) == {NoTime} \cup {d * DaySeconds + o : o \in CalcOffsets}

CalcCheckouts(d, ci) ==
    {NoTime} \cup (IF ci = NoTime THEN {d * DaySeconds + 17 * SecondsPerHour}
                   ELSE {ci + w : w \in CalcWorked})

CalcStatuses == {NoStatus, "Pending", "On Leave", "Holiday", "Off Day"}

\* stored late durations an instance can carry: none, or one minute
CalcLates == {NoDur, SecondsPerMinute}

\* the instance with these field values
CalcRecord(pk, d, sf, ci, co, st, ld) ==
    [pk |-> pk, employee |-> "e1", date |-> d, shift |-> sf,
     checkin_time |-> ci, checkout_time |-> co, device_id |-> NoDevice,
     status |-> st, late_duration |-> ld]

Evaluate ==
    /\ calc.pc = "ready"
    /\ calc' =
         [calc EXCEPT
            !.pc = "done",
            !.late = ComputeLateDuration(calc.rec, EffectiveShift(calc.rec, shifts)),
            !.status = ComputeStatus(calc.rec, shifts),
            !.saved = Derive(calc.rec, shifts),
            !.marked = IF MarkBranch(calc.rec) = "NONE" THEN calc.rec
                       ELSE Derive(MarkedRecord(calc.rec, calc.dev, calc.at),
                                   shifts)]
    /\ UNCHANGED <<now, ticks, shifts, recs, nextPk, adjs, holidays, resp,
                   budget, procs, hproc, txns, observed, pay>>

\* an instance with any of the inputs, with the first shift active or with
\* no active shift
InitCalc ==
    /\ InitCommon
    /\ \E a \in {NoShift, 1} :
          shifts = [s \in ShiftIds |-> [exists |-> s = 1, is_active |-> s = a]]
    /\ budget = [manual |-> 0]
    /\ \E pk \in {NoPk, 1}, d \in {StartDay, StartDay + 1},
          sf \in {NoShift} \cup PolicyIds, st \in CalcStatuses, ld \in CalcLates :
          \E ci \in CalcCheckins(d) :
             \E co \in CalcCheckouts(d, ci) :
                calc = [NoCalc EXCEPT
                          !.pc = "ready",
                          !.rec = CalcRecord(pk, d, sf, ci, co, st, ld),
                          !.dev = "d1",
                          !.at = d * DaySeconds + 10 * SecondsPerHour]

NextCalc == Evaluate

SpecCalc == InitCalc /\ [][NextCalc]_vars

\* ---------------------------------------------------------------- payroll
\* An operator enters one employee's days through the admin form, one day
\* after the other from PayFirstDay on; each day is one of these kinds
\* (shift 1 is active: start 09:00, no grace, present from 8 hours).
PayFirstDay == StartDay - 3

PayKinds == {"ontime", "late", "short", "holiday"}

\* check-in and check-out of a day of kind k on date d, and the status the
\* operator selects (none: left to the derivation)
PayCheckin(k, d) ==
    IF k \in {"late", "holiday"}
    THEN d * DaySeconds + 9 * SecondsPerHour + 10 * SecondsPerMinute
    ELSE d * DaySeconds + 9 * SecondsPerHour

PayCheckout(k, d) ==
    IF k = "short" THEN PayCheckin(k, d) + 2 * SecondsPerHour
    ELSE PayCheckin(k, d) + 8 * SecondsPerHour

PayStatus(k) == IF k = "holiday" THEN "Holiday" ELSE NoStatus

\* days that may be on record when the operator starts
PayEntered == 2

\* the months the entered days fall in
PayMonths == {MonthOf(PayFirstDay + i) : i \in 0..(PayEntered + MaxPayRecs - 1)}

\* the operation that ran last: a save of the instance rec of employee e,
\* with whether its recompute for month m raised,
PaySaved(e, m, rec, failed) ==
    [kind |-> "save", employee |-> e, month |-> m, failed |-> failed,
     rec |-> rec, count |-> 0]

\* a request that saved the instance rec and ended with an error,
PayError(e, m, rec) ==
    [kind |-> "error", employee |-> e, month |-> m, failed |-> TRUE,
     rec |-> rec, count |-> 0]

\* or a bulk run, with whether it raised and the count it returned
PayBulk(m, failed, count) ==
    [kind |-> "bulk", employee |-> "-", month |-> m, failed |-> failed,
     rec |-> NoRec, count |-> count]

\* the tables after n late days of employee e were entered one after the
\* other, starting from the adjustments as
RECURSIVE LateDaysEntered(_, _, _)
LateDaysEntered(e, n, as) ==
    IF n = 0 THEN [recs |-> {}, adjs |-> as]
    ELSE LET before == LateDaysEntered(e, n - 1, as)
             d == PayFirstDay + n - 1
             r == [NewRecord(e, d) EXCEPT
                     !.checkin_time = PayCheckin("late", d),
                     !.checkout_time = PayCheckout("late", d)]
         IN  SaveRecord(before.recs, before.adjs, r, n, InitShifts)

\* the admin add form: a new record of employee e, saved
AdminAdd(e, k) ==
    LET d == PayFirstDay + Cardinality(recs)
        r == [NewRecord(e, d) EXCEPT !.checkin_time = PayCheckin(k, d),
                                     !.checkout_time = PayCheckout(k, d),
                                     !.status = PayStatus(k)]
    IN  /\ nextPk <= PayEntered + MaxPayRecs
        /\ \A x \in recs : x.employee = e
        /\ \E w \in {AdminSave(recs, adjs, r, nextPk, shifts)} :
              /\ recs' = w.recs
              /\ adjs' = w.adjs
              /\ pay' = IF w.failed
                        THEN PayError(e, MonthOf(d), Instance(r, nextPk, shifts))
                        ELSE PaySaved(e, MonthOf(d),
                                      Instance(r, nextPk, shifts), FALSE)
        /\ nextPk' = nextPk + 1
        /\ UNCHANGED <<now, ticks, shifts, holidays, resp, budget,
                       procs, hproc, txns, observed, calc>>

\* the admin change form: record r, the day entered last, re-entered as a
\* day of kind k, saved
AdminChange(r, k) ==
    LET n == [r EXCEPT !.checkin_time = PayCheckin(k, r.date),
                       !.checkout_time = PayCheckout(k, r.date),
                       !.status = IF k = "holiday" THEN "Holiday" ELSE "Absent"]
    IN  /\ budget.manual > 0
        /\ r \in recs
        /\ \A x \in recs : x.date <= r.date
        /\ \E w \in {AdminSave(recs, adjs, n, r.pk, shifts)} :
              /\ recs' = w.recs
              /\ adjs' = w.adjs
              /\ pay' = IF w.failed
                        THEN PayError(r.employee, MonthOf(r.date),
                                      Instance(n, r.pk, shifts))
                        ELSE PaySaved(r.employee, MonthOf(r.date),
                                      Instance(n, r.pk, shifts), FALSE)
        /\ budget' = [budget EXCEPT !.manual = @ - 1]
        /\ UNCHANGED <<now, ticks, shifts, nextPk, holidays, resp,
                       procs, hproc, txns, observed, calc>>

\* the instance get_or_create returned as c.rec, with the values of a row
\* of kind k for date d assigned
ImportedRow(c, k, d) ==
    [c.rec EXCEPT !.checkin_time = PayCheckin(k, d),
                  !.checkout_time = PayCheckout(k, d),
                  !.status = IF PayStatus(k) = NoStatus THEN @
                             ELSE PayStatus(k)]

\* a row of an imported sheet: a day of kind k of employee e, not on record
\* yet; every statement of the import commits on its own
ImportDay(e, k) ==
    LET d == PayFirstDay + Cardinality(recs)
    IN  /\ nextPk <= PayEntered + MaxPayRecs
        /\ \A x \in recs : x.employee = e
        /\ \E c \in {CreateRecord(recs, adjs, e, d, nextPk, shifts)} :
           \E r \in {ImportedRow(c, k, d)} :
           \E w \in {SaveRecord(c.recs, c.adjs, r, nextPk, shifts)} :
              /\ recs' = w.recs
              /\ adjs' = w.adjs
              /\ pay' = PaySaved(e, MonthOf(d), Instance(r, nextPk, shifts),
                                 w.failed)
        /\ nextPk' = nextPk + 1
        /\ UNCHANGED <<now, ticks, shifts, holidays, resp, budget,
                       procs, hproc, txns, observed, calc>>

\* the admin delete of the day entered last: Model.delete(), which runs no
\* recompute
AdminDelete(r) ==
    /\ budget.manual > 0
    /\ r \in recs
    /\ \A x \in recs : x.date <= r.date
    /\ recs' = recs \ {r}
    /\ budget' = [budget EXCEPT !.manual = @ - 1]
    /\ pay' = NoPay
    /\ UNCHANGED <<now, ticks, shifts, nextPk, adjs, holidays, resp,
                   procs, hproc, txns, observed, calc>>

\* the salary views' "process_auto" for month m
BulkRecompute(m) ==
    LET run == BulkRun(EmployeeOrder, recs, adjs, m, shifts, 0)
    IN  /\ adjs' = run.adjs
        /\ pay' = PayBulk(m, run.failed, run.writes)
        /\ UNCHANGED <<now, ticks, shifts, recs, nextPk, holidays, resp, budget,
                       procs, hproc, txns, observed, calc>>

\* a bonus an administrator entered by hand under the reason of the
\* automatic one
ManualTwin ==
    [employee |-> "e1", month |-> MonthOf(PayFirstDay), adjustment_type |-> "bonus",
     reason |-> BonusReason, amount |-> 50000,
     is_automatic |-> FALSE, comments |-> 0]

\* no records, or PayEntered late days of one employee; the manual
\* adjustments are there, with or without the one that carries the
\* automatic bonus's reason
InitPay ==
    /\ now = StartInstant
    /\ ticks = 0
    /\ nextPk = PayEntered + 1
    /\ \E e \in Employees, n \in {0, PayEntered},
          as \in {{ManualRow}, {ManualRow, ManualTwin}} :
          /\ recs = LateDaysEntered(e, n, as).recs
          /\ adjs = LateDaysEntered(e, n, as).adjs
          /\ pay = IF n = 0 THEN NoPay
                   ELSE PaySaved(e, MonthOf(PayFirstDay + n - 1),
                                 CHOOSE r \in recs : r.pk = n, FALSE)
    /\ holidays = [h \in HolidayIds |-> [exists |-> FALSE, is_active |-> FALSE]]
    /\ resp = NoResp
    /\ procs = [p \in Procs |-> IdleProc]
    /\ hproc = IdleHoliday
    /\ txns = [p \in Procs |-> IdleTxn]
    /\ observed = {}
    /\ calc = NoCalc
    /\ shifts = InitShifts
    /\ budget = [manual |-> MaxManual]

NextPay ==
    \/ \E e \in Employees, k \in PayKinds : AdminAdd(e, k)
    \/ \E e \in Employees, k \in PayKinds : ImportDay(e, k)
    \/ \E r \in recs, k \in PayKinds : AdminChange(r, k)
    \/ \E r \in recs : AdminDelete(r)
    \/ \E m \in PayMonths : BulkRecompute(m)

SpecPay == InitPay /\ [][NextPay]_vars

\* ------------------------------------------------------- holiday ledger
\* Holiday definitions are saved active or inactive and deleted, while
\* records of other origins are on record and employees are captured.

\* what is on record for a day: nothing, an on-time day, a day marked
\* Holiday by hand, a day on leave
HolidayKinds == {"none", "ontime", "holiday", "leave"}

\* the record of day d of kind k as the admin form submits it
HolidayEntry(k, d) ==
    [NewRecord("e1", d) EXCEPT
       !.checkin_time = IF k = "ontime" THEN PayCheckin(k, d) ELSE NoTime,
       !.checkout_time = IF k = "ontime" THEN PayCheckout(k, d) ELSE NoTime,
       !.status = IF k = "holiday" THEN "Holiday"
                  ELSE IF k = "leave" THEN "On Leave" ELSE NoStatus]

\* the tables st after day n was entered as a day of kind k
DayEntered(st, k, n) ==
    IF k = "none" THEN [recs |-> st.recs, adjs |-> st.adjs]
    ELSE LET w == SaveRecord(st.recs, st.adjs,
                             HolidayEntry(k, StartDay + n - 1), n, InitShifts)
         IN  [recs |-> w.recs, adjs |-> w.adjs]

\* BulkHoliday.delete
HolidayDelete(h) ==
    /\ holidays[h].exists
    /\ recs' = RemoveHolidayRecords(h, recs)
    /\ holidays' = [holidays EXCEPT ![h] = [exists |-> FALSE, is_active |-> FALSE]]
    /\ resp' = NoResp
    /\ UNCHANGED <<calc, pay, now, ticks, shifts, nextPk, adjs, budget,
                   procs, hproc, txns, observed>>

InitHol ==
    /\ now = StartInstant
    /\ ticks = 0
    /\ nextPk = HolidayDays + 1
    /\ \E k1 \in HolidayKinds, k2 \in HolidayKinds, k3 \in HolidayKinds :
       \E s1 \in {DayEntered([recs |-> {}, adjs |-> {ManualRow}], k1, 1)} :
       \E s2 \in {DayEntered(s1, k2, 2)} :
       \E s3 \in {DayEntered(s2, k3, 3)} :
          /\ recs = s3.recs
          /\ adjs = s3.adjs
    /\ holidays = [h \in HolidayDefs |-> [exists |-> FALSE, is_active |-> FALSE]]
    /\ resp = NoResp
    /\ procs = [p \in Procs |-> IdleProc]
    /\ hproc = IdleHoliday
    /\ txns = [p \in Procs |-> IdleTxn]
    /\ observed = {}
    /\ calc = NoCalc
    /\ pay = NoPay
    /\ shifts = InitShifts
    /\ budget = [manual |-> MaxManual]

NextHol ==
    \/ \E h \in HolidayDefs, active \in BOOLEAN : HolidaySave(h, active)
    \/ \E h \in HolidayDefs : HolidayDelete(h)
    \/ \E e \in Enrolled, dev \in Devices : BiometricEvent(e, dev)

SpecHol == InitHol /\ [][NextHol]_vars

\* ------------------------------------------------------------- matching
\* The capture endpoint loads the registered encodings and matches the
\* probe against them.  A registry row is [employee, distance, ok]:
\* distance is what face_distance gives for the row's encoding and the
\* probe, in hundredths; ok says the stored encoding has shape (128,).

\* tolerance=0.5, in hundredths
Tolerance == 50

\* face_distance values, the tolerance itself among them
Distances == {10, 20, Tolerance, 60}

\* None
NoEmployee == "-"

\* variant: every stored encoding is loaded
LoadEveryEncoding(rows) == rows

\* load_known_encodings: the rows whose encoding has 128 dimensions, in
\* the order of the query
LoadKnownEncodings(rows) == SelectSeq(rows, LAMBDA x : x.ok)

\* variant: a face at the tolerance is not accepted
CompareFacesBelow(known) == [i \in 1..Len(known) |-> known[i].distance < Tolerance]

\* compare_faces(known, encoding, tolerance): face_distance <= tolerance
CompareFaces(known) == [i \in 1..Len(known) |-> known[i].distance <= Tolerance]

\* variant: the first row that compare_faces accepts
ArgFirstMatch(known) ==
    CHOOSE i \in 1..Len(known) :
       /\ CompareFaces(known)[i]
       /\ \A j \in 1..(i - 1) : ~ CompareFaces(known)[j]

\* np.argmin(distances): the first index that holds the minimum
ArgMin(known) ==
    CHOOSE i \in 1..Len(known) :
       /\ \A j \in 1..Len(known) : known[i].distance <= known[j].distance
       /\ \A j \in 1..(i - 1) : known[j].distance > known[i].distance

\* find_best_match(known_encodings, employees, encoding)
FindBestMatch(known) ==
    IF known = <<>>
    THEN [employee |-> NoEmployee,
          error |-> "No employees with registered face encodings."]
    ELSE IF \A i \in 1..Len(known) : ~ CompareFaces(known)[i]
    THEN [employee |-> NoEmployee, error |-> "Face not recognized."]
    ELSE [employee |-> known[ArgMin(known)].employee, error |-> ""]

\* no match evaluated yet on the rows
MatchReady(rows) ==
    [pc |-> "ready", rows |-> rows,
     result |-> [employee |-> NoEmployee, error |-> ""]]

\* face_attendance_api up to the match
Match ==
    /\ calc.pc = "ready"
    /\ calc' = [calc EXCEPT
                  !.pc = "done",
                  !.result = FindBestMatch(LoadKnownEncodings(calc.rows))]
    /\ UNCHANGED <<now, ticks, shifts, recs, nextPk, adjs, holidays, resp,
                   budget, procs, hproc, txns, observed, pay>>

\* every registry of distinct employees, in every order, with every
\* choice of distances
InitMatch ==
    /\ InitCommon
    /\ shifts = InitShifts
    /\ budget = [manual |-> 0]
    /\ \E n \in 0..Cardinality(Employees) :
       \E es \in [1..n -> Employees], ds \in [1..n -> Distances],
          oks \in [1..n -> BOOLEAN] :
          /\ \A i \in 1..n, j \in 1..n : es[i] = es[j] => i = j
          /\ calc = MatchReady([i \in 1..n |->
                                  [employee |-> es[i], distance |-> ds[i],
                                   ok |-> oks[i]]])

NextMatch == Match

SpecMatch == InitMatch /\ [][NextMatch]_vars

\* -------------------------------------------------------- capture requests
\* The whole endpoint: the match against the registry, then the ledger.
\* calc holds the registry, rows [employee, ok] in the order of the query,
\* and, once a request ran, the distances of its probe to the rows.

\* amounts by which the wall clock advances between requests: half an
\* hour, and from the morning to half an hour before midnight
CaptureSteps ==
    {30 * SecondsPerMinute, 14 * SecondsPerHour + 30 * SecondsPerMinute}

\* the employees that may have an encoding stored
CaptureEmployees == {"e1", "e2"}

\* the probes a terminal sends, each by its distances to the encodings of
\* e1 and e2: the face of e1, the face of e2, a stranger, a face at the
\* tolerance from e1, and a face close to both
CaptureProbes ==
    {[e \in CaptureEmployees |-> IF e = "e1" THEN d[1] ELSE d[2]] :
        d \in {<<20, 60>>, <<60, 20>>, <<60, 60>>, <<Tolerance, 60>>,
               <<20, 10>>}}

\* the rows with the distances face_distance gives for a probe
Probed(rows, probe) ==
    [i \in 1..Len(rows) |->
       [employee |-> rows[i].employee, distance |-> probe[rows[i].employee],
        ok |-> rows[i].ok]]

\* JsonResponse({"error": err}, status=500) and
\* JsonResponse({"status": "unknown", "message": err}, status=404)
MatchFailure(err) ==
    [check_type |-> "-", employee |-> NoEmployee, cooldown_remaining |-> 0,
     status |-> IF err = "Face not recognized." THEN 404 ELSE 500,
     error |-> err]

\* no request ran yet on the registry
CaptureReady(rows) ==
    [pc |-> "ready", rows |-> rows, probe |-> <<>>,
     result |-> [employee |-> NoEmployee, error |-> ""]]

\* face_attendance_api for a probe
Capture(probe, dev) ==
    \E m \in {FindBestMatch(LoadKnownEncodings(Probed(calc.rows, probe)))} :
       /\ calc' = [calc EXCEPT !.pc = "done", !.probe = probe, !.result = m]
       /\ IF m.error # ""
          THEN /\ resp' = MatchFailure(m.error)
               /\ UNCHANGED <<pay, now, ticks, shifts, recs, nextPk, adjs,
                              holidays, budget, procs, hproc, txns, observed>>
          ELSE CaptureLedger(m.employee, dev)

\* a registry: some of the employees in the order of the query, each with
\* an encoding of 128 dimensions or of another shape
InitCapture ==
    /\ InitCommon
    /\ shifts = InitShifts
    /\ budget = [manual |-> 0]
    /\ \E in \in SUBSET CaptureEmployees, bad \in SUBSET CaptureEmployees :
          /\ bad \subseteq in
          /\ calc = CaptureReady(
                 [i \in 1..Cardinality(in) |->
                    [employee |-> SelectSeq(EmployeeOrder,
                                            LAMBDA e : e \in in)[i],
                     ok |-> SelectSeq(EmployeeOrder,
                                      LAMBDA e : e \in in)[i] \notin bad]])

NextCapture ==
    \/ \E d \in CaptureSteps : Tick(d)
    \/ \E probe \in CaptureProbes, dev \in ConcDevices :
          Capture(probe, dev)

SpecCapture == InitCapture /\ [][NextCapture]_vars

\* ------------------------------------------- captures and bulk recomputes
\* Capture requests of two enrolled employees over the end of a month, and
\* the bulk recompute for either month.

\* the month of the first instant and the one after it
FrameMonths == {MonthOf(StartDay), MonthOf(StartDay + 1)}

\* the probes: the face of e1 and the face of e2
FrameProbes == {p \in CaptureProbes : {p["e1"], p["e2"]} = {20, 60}}

InitFrame ==
    /\ InitCommon
    /\ shifts = InitShifts
    /\ budget = [manual |-> 0]
    /\ calc = CaptureReady([i \in 1..2 |->
                              [employee |-> EmployeeOrder[i], ok |-> TRUE]])

NextFrame ==
    \/ \E d \in CaptureSteps : Tick(d)
    \/ \E probe \in FrameProbes, dev \in ConcDevices :
          Capture(probe, dev)
    \/ \E m \in FrameMonths : BulkRecompute(m)

SpecFrame == InitFrame /\ [][NextFrame]_vars

\* ------------------------------------------------ concurrent recomputes
\* Two saves of records of one employee run at the same time; each is a
\* sequence of database statements (no transaction spans them), and the
\* statements of the two interleave.

\* INSERT of a SalaryAdjustment row: IntegrityError when a row holds the
\* key of unique_together
InsertRow(as, row) ==
    IF SameKey(as, row) # {} THEN [adjs |-> as, failed |-> TRUE]
    ELSE [adjs |-> as \cup {row}, failed |-> FALSE]

\* the write of one automatic row by a recompute that read `found` with
\* filter(...).first() before: save() of the row read (an UPDATE by pk, an
\* INSERT when the row is gone), create(), or delete() of the row read
WriteRow(as, found, row, due) ==
    IF due
    THEN IF found # {} /\ AutoRows(as, row) # {}
         THEN [adjs |-> (as \ AutoRows(as, row)) \cup {row}, failed |-> FALSE]
         ELSE InsertRow(as, row)
    ELSE IF found # {}
         THEN [adjs |-> as \ AutoRows(as, row), failed |-> FALSE]
         ELSE [adjs |-> as, failed |-> FALSE]

\* a save in flight: its position, the employee and month of its record,
\* what its scan of the month's records found due, the row its last
\* filter(...).first() returned, and whether an exception ended its recompute
IdleSave ==
    [pc |-> "idle", employee |-> "-", month |-> 0,
     fineDue |-> FALSE, fineRow |-> ManualRow,
     bonusDue |-> FALSE, bonusRow |-> ManualRow,
     found |-> {}, failed |-> FALSE]

\* super().save() of a new record of employee e, a day of kind k
SavePersist(p, e, k) ==
    LET d == PayFirstDay + Cardinality(recs)
        r == [NewRecord(e, d) EXCEPT !.checkin_time = PayCheckin(k, d),
                                     !.checkout_time = PayCheckout(k, d),
                                     !.status = PayStatus(k)]
    IN  /\ procs[p].pc = "idle"
        /\ recs' = Persist(recs, Derive(r, shifts), nextPk)
        /\ nextPk' = nextPk + 1
        /\ procs' = [procs EXCEPT ![p] =
                       [@ EXCEPT !.pc = "scan", !.employee = e,
                                 !.month = MonthOf(d)]]
        /\ UNCHANGED <<now, ticks, shifts, adjs, holidays, resp, budget,
                       hproc, txns, observed, calc, pay>>

\* the loop over the month's records: late_days, the fine and the bonus
SaveScan(p) ==
    LET e == procs[p].employee
        m == procs[p].month
    IN  /\ procs[p].pc = "scan"
        /\ procs' = [procs EXCEPT ![p] =
                       [@ EXCEPT !.pc = "fineget",
                                 !.fineDue = FineDue(recs, e, m, shifts),
                                 !.fineRow = FineRow(recs, e, m, shifts),
                                 !.bonusDue = BonusDue(recs, e, m, shifts),
                                 !.bonusRow = BonusRow(e, m)]]
        /\ UNCHANGED <<now, ticks, shifts, recs, nextPk, adjs, holidays, resp,
                       budget, hproc, txns, observed, calc, pay>>

\* attendance_fine = filter(..., is_automatic=True).first()
SaveFineGet(p) ==
    /\ procs[p].pc = "fineget"
    /\ procs' = [procs EXCEPT ![p] =
                   [@ EXCEPT !.pc = "fineput",
                             !.found = AutoRows(adjs, procs[p].fineRow)]]
    /\ UNCHANGED <<now, ticks, shifts, recs, nextPk, adjs, holidays, resp,
                   budget, hproc, txns, observed, calc, pay>>

\* the fine is saved, created or deleted; an exception ends the recompute
SaveFinePut(p) ==
    LET w == WriteRow(adjs, procs[p].found, procs[p].fineRow, procs[p].fineDue)
    IN  /\ procs[p].pc = "fineput"
        /\ adjs' = w.adjs
        /\ procs' = [procs EXCEPT ![p] =
                       IF w.failed THEN [@ EXCEPT !.pc = "done", !.failed = TRUE]
                       ELSE [@ EXCEPT !.pc = "bonusget"]]
        /\ UNCHANGED <<now, ticks, shifts, recs, nextPk, holidays, resp,
                       budget, hproc, txns, observed, calc, pay>>

\* perfect_bonus = filter(..., is_automatic=True).first()
SaveBonusGet(p) ==
    /\ procs[p].pc = "bonusget"
    /\ procs' = [procs EXCEPT ![p] =
                   [@ EXCEPT !.pc = "bonusput",
                             !.found = AutoRows(adjs, procs[p].bonusRow)]]
    /\ UNCHANGED <<now, ticks, shifts, recs, nextPk, adjs, holidays, resp,
                   budget, hproc, txns, observed, calc, pay>>

\* the bonus is saved, created or deleted
SaveBonusPut(p) ==
    LET w == WriteRow(adjs, procs[p].found, procs[p].bonusRow, procs[p].bonusDue)
    IN  /\ procs[p].pc = "bonusput"
        /\ adjs' = w.adjs
        /\ procs' = [procs EXCEPT ![p] =
                       [@ EXCEPT !.pc = "done", !.failed = w.failed]]
        /\ UNCHANGED <<now, ticks, shifts, recs, nextPk, holidays, resp,
                       budget, hproc, txns, observed, calc, pay>>

\* reasons an administrator gives a row entered by hand
AdminReasons == {FineReason, "Adjustment"}

\* the admin add form of SalaryAdjustment: kind, reason and the automatic
\* flag are the administrator's; the form refuses a key that is taken
AdjustmentAdd(e, t, reason, auto) ==
    LET row == [employee |-> e, month |-> MonthOf(PayFirstDay),
                adjustment_type |-> t, reason |-> reason, amount |-> 50000,
                is_automatic |-> auto, comments |-> 0]
    IN  /\ budget.manual > 0
        /\ budget' = [budget EXCEPT !.manual = @ - 1]
        /\ adjs' = InsertRow(adjs, row).adjs
        /\ UNCHANGED <<now, ticks, shifts, recs, nextPk, holidays, resp,
                       procs, hproc, txns, observed, calc, pay>>

\* up to PayEntered late days of e1 are on record; no save is in flight
InitPayConc ==
    /\ now = StartInstant
    /\ ticks = 0
    /\ \E n \in 0..PayEntered :
          /\ recs = LateDaysEntered("e1", n, {ManualRow}).recs
          /\ adjs = LateDaysEntered("e1", n, {ManualRow}).adjs
          /\ nextPk = n + 1
    /\ holidays = [h \in HolidayIds |-> [exists |-> FALSE, is_active |-> FALSE]]
    /\ resp = NoResp
    /\ procs = [p \in Procs |-> IdleSave]
    /\ hproc = IdleHoliday
    /\ txns = [p \in Procs |-> IdleTxn]
    /\ observed = {}
    /\ pay = NoPay
    /\ calc = NoCalc
    /\ shifts = InitShifts
    /\ budget = [manual |-> MaxManual]

NextPayConc ==
    \/ \E t \in {"bonus", "fine"}, reason \in AdminReasons, auto \in BOOLEAN :
          AdjustmentAdd("e1", t, reason, auto)
    \/ \E p \in Procs, k \in PayKinds : SavePersist(p, "e1", k)
    \/ \E p \in Procs : SaveScan(p)
    \/ \E p \in Procs : SaveFineGet(p)
    \/ \E p \in Procs : SaveFinePut(p)
    \/ \E p \in Procs : SaveBonusGet(p)
    \/ \E p \in Procs : SaveBonusPut(p)

\* two saves of records of e1 and their recomputes, statement by statement,
\* and an administrator who enters adjustments by hand
SpecPayConc == InitPayConc /\ [][NextPayConc]_vars

\* ================================================================ claims
\* the records of employee e for the date of the current instant
TodayRecords(e) == RecordsOf(recs, e, DateOf(now))

\* this step is a biometric event of employee e (every other operation
\* leaves the empty response)
EventStep(e) == resp'.employee = e

\* the late duration the shift policy gives for a check-in ci on date d
ExpectedLate(ci, d, shift) ==
    IF ci = NoTime \/ shift = NoShift THEN NoDur
    ELSE LET allowed == d * 86400 + ShiftCfg[shift].shift_start
                          + 60 * ShiftCfg[shift].allowed_late_minutes
         IN  IF ci > allowed THEN ci - allowed ELSE 0

\* the classifier's result for two timestamps under a policy (without a
\* policy no threshold is met)
ExpectedStatus(ci, co, shift) ==
    IF ci = NoTime /\ co = NoTime THEN "Absent"
    ELSE IF ci = NoTime \/ co = NoTime THEN "Pending"
    ELSE IF shift # NoShift /\ (co - ci) * 100 >= 3600 * ShiftCfg[shift].present_hours
         THEN "Present"
    ELSE IF shift # NoShift /\ (co - ci) * 100 >= 3600 * ShiftCfg[shift].half_day_hours
         THEN "Half Day"
    ELSE "Early Leave"

\* the policy a record is derived from: its own, else the active one
PolicyOf(r) == IF r.shift # NoShift THEN r.shift ELSE GetActiveShift(shifts)

\* the record for today that a first event finds (an empty one when absent)
FoundToday(e) ==
    IF TodayRecords(e) = {} THEN {NewRecord(e, DateOf(now))} ELSE TodayRecords(e)

\* C1: a biometric event for an identity whose record for today has a
\* check-in less than 1 hour before the event answers "cooldown" and leaves
\* the attendance records and the salary adjustments as they were.
C1_CooldownChangesNothing ==
    [][\A e \in Employees :
         (/\ EventStep(e)
          /\ \E r \in TodayRecords(e) :
                /\ r.checkin_time # NoTime
                /\ now - r.checkin_time >= 0
                /\ now - r.checkin_time < 3600)
         => (/\ resp'.check_type = "cooldown"
             /\ recs' = recs
             /\ adjs' = adjs)]_vars

C1_Witness ==
    /\ resp.check_type = "cooldown"
    /\ adjs # {}
    /\ \E r \in TodayRecords(resp.employee) :
          /\ r.checkin_time # NoTime
          /\ r.checkout_time = NoTime
          /\ now - r.checkin_time = 1800

\* C7: a rejected event reports 60 minus the whole minutes elapsed since
\* the stored check-in (30 for an event 30 minutes after the check-in).
C7_MinutesRemaining ==
    [][\A e \in Employees :
         (EventStep(e) /\ resp'.check_type = "cooldown")
         => \E r \in TodayRecords(e) :
               /\ r.checkin_time # NoTime
               /\ now - r.checkin_time >= 0
               /\ now - r.checkin_time < 3600
               /\ resp'.cooldown_remaining = 60 - ((now - r.checkin_time) \div 60)
               /\ (now - r.checkin_time = 1800 => resp'.cooldown_remaining = 30)]_vars

\* rejected 30 minutes and 30 seconds after the check-in: 30 whole minutes
C7_Witness ==
    /\ resp.check_type = "cooldown"
    /\ resp.cooldown_remaining = 30
    /\ \E r \in TodayRecords(resp.employee) : now - r.checkin_time = 1830

\* C8: after any sequence of shift saves at most one shift is active.
C8_AtMostOneActive ==
    Cardinality({s \in ShiftIds : shifts[s].exists /\ shifts[s].is_active}) <= 1

\* shift 2 was activated while shift 1 was active
C8_Witness ==
    /\ shifts[2].exists /\ shifts[2].is_active
    /\ shifts[1].exists /\ ~ shifts[1].is_active

\* C4 (as claimed): the first biometric event at T for an identity whose
\* record for today is absent or has no check-in leaves a record with
\* check-in = T and no check-out, answers "IN", and derives status (Pending
\* unless sticky) and late-duration on that save.
C4_FirstEventChecksIn ==
    [][\A e \in Employees : \A r \in FoundToday(e) :
         (EventStep(e) /\ r.checkin_time = NoTime)
         => /\ resp'.check_type = "IN"
            /\ \E n \in RecordsOf(recs', e, DateOf(now)) :
                  /\ n.checkin_time = now
                  /\ n.checkout_time = NoTime
                  /\ n.status = (IF r.status \in ManualStatuses THEN r.status
                                 ELSE "Pending")
                  /\ n.late_duration = ExpectedLate(now, n.date, PolicyOf(n))]_vars

\* C4 (amended): the event stores check-in = T, answers "IN" and leaves the
\* check-out as it was; a sticky status is kept, otherwise the status is
\* Pending without a check-out and the classifier's result with one; the
\* late-duration is derived from T unless a sticky record already stores one.
C4_FirstEventChecksInAmended ==
    [][\A e \in Employees : \A r \in FoundToday(e) :
         (EventStep(e) /\ r.checkin_time = NoTime)
         => /\ resp'.check_type = "IN"
            /\ \E n \in RecordsOf(recs', e, DateOf(now)) :
                  /\ n.checkin_time = now
                  /\ n.checkout_time = r.checkout_time
                  /\ IF r.status \in ManualStatuses
                     THEN /\ n.status = r.status
                          /\ n.late_duration =
                               (IF r.late_duration # NoDur THEN r.late_duration
                                ELSE ExpectedLate(now, n.date, PolicyOf(n)))
                     ELSE /\ n.late_duration = ExpectedLate(now, n.date, PolicyOf(n))
                          /\ n.status = (IF n.checkout_time = NoTime THEN "Pending"
                                         ELSE ExpectedStatus(now, n.checkout_time,
                                                             PolicyOf(n)))]_vars

\* a first event created the record: check-in now, Pending, 30 seconds
\* after the grace period of shift 2
C4_Witness ==
    /\ resp.check_type = "IN"
    /\ \E r \in TodayRecords(resp.employee) :
          /\ r.checkin_time = now
          /\ r.checkout_time = NoTime
          /\ r.status = "Pending"
          /\ r.shift = 2
          /\ r.late_duration = 30

\* C5 (as claimed): an event at T for a CheckedIn record at least 1 hour
\* after the stored check-in sets check-out = T, keeps the check-in, answers
\* "OUT" and reclassifies the status from the two timestamps.
C5_CheckoutAccepted ==
    [][\A e \in Employees : \A r \in TodayRecords(e) :
         (/\ EventStep(e)
          /\ r.checkin_time # NoTime
          /\ r.checkout_time = NoTime
          /\ now - r.checkin_time >= 3600)
         => /\ resp'.check_type = "OUT"
            /\ \E n \in recs' :
                  /\ n.pk = r.pk
                  /\ n.checkout_time = now
                  /\ n.checkin_time = r.checkin_time
                  /\ n.status = ExpectedStatus(n.checkin_time, now, PolicyOf(n))]_vars

\* C5 (amended): as claimed, except that a sticky status (On Leave, Holiday,
\* Off Day) is kept instead of being reclassified.
C5_CheckoutAcceptedAmended ==
    [][\A e \in Employees : \A r \in TodayRecords(e) :
         (/\ EventStep(e)
          /\ r.checkin_time # NoTime
          /\ r.checkout_time = NoTime
          /\ now - r.checkin_time >= 3600)
         => /\ resp'.check_type = "OUT"
            /\ \E n \in recs' :
                  /\ n.pk = r.pk
                  /\ n.checkout_time = now
                  /\ n.checkin_time = r.checkin_time
                  /\ n.status = (IF r.status \in ManualStatuses THEN r.status
                                 ELSE ExpectedStatus(n.checkin_time, now,
                                                     PolicyOf(n)))]_vars

\* accepted exactly 60 minutes after the check-in, classified Present
C5_Witness ==
    /\ resp.check_type = "OUT"
    /\ \E r \in TodayRecords(resp.employee) :
          /\ r.checkout_time = now
          /\ r.checkout_time - r.checkin_time = 3600
          /\ r.status = "Present"

\* C6: for a record with check-in and check-out, every further biometric
\* event answers "NONE" and changes neither the records nor the salary
\* adjustments.
C6_AlreadyComplete ==
    [][\A e \in Employees : \A r \in TodayRecords(e) :
         (/\ EventStep(e)
          /\ r.checkin_time # NoTime
          /\ r.checkout_time # NoTime)
         => /\ resp'.check_type = "NONE"
            /\ recs' = recs
            /\ adjs' = adjs]_vars

C2_SerialOutcome ==
    /\ [](\A r \in recs :
            r.checkout_time # NoTime
            => /\ r.checkin_time # NoTime
               /\ r.checkout_time - r.checkin_time >= 3600)
    /\ [][\A r \in recs :
            r.checkin_time # NoTime
            => \E n \in recs' : n.pk = r.pk /\ n.checkin_time = r.checkin_time]_vars

\* C3: in every reachable state there is at most one attendance record per
\* (identity, date).
C3_UniquePerIdentityDate ==
    \A r1 \in recs, r2 \in recs :
       (r1.employee = r2.employee /\ r1.date = r2.date) => r1.pk = r2.pk

\* C9: no reader observes more than one active shift, and after both
\* activations committed exactly one shift is active.
C9_OneActiveObserved ==
    /\ Cardinality(observed) <= 1
    /\ (\A p \in Procs : txns[p].pc = "done")
       => Cardinality(ActiveShifts(shifts)) = 1

\* ------------------------------------------------- derivation functions
\* the instant by which a check-in on date d is on time under a policy
AllowedBy(d, shift) ==
    d * 86400 + ShiftCfg[shift].shift_start
      + 60 * ShiftCfg[shift].allowed_late_minutes

\* C11: a check-in exactly at start + grace gives late-duration zero, one
\* second later gives exactly one second, and in general the late-duration
\* is max(0, check-in - (start + grace)), for every policy and date.
C11_LateBoundary ==
    (/\ calc.pc = "done"
     /\ calc.rec.checkin_time # NoTime
     /\ PolicyOf(calc.rec) # NoShift)
    => LET ci == calc.rec.checkin_time
           by == AllowedBy(calc.rec.date, PolicyOf(calc.rec))
       IN  /\ ci = by => calc.late = 0
           /\ ci = by + 1 => calc.late = 1
           /\ ci <= by => calc.late = 0
           /\ ci > by => calc.late = ci - by

\* a check-in one second after a grace period that ends on the next day
C11_Witness ==
    /\ calc.pc = "done"
    /\ calc.rec.shift = 4
    /\ calc.rec.checkin_time = AllowedBy(calc.rec.date, 4) + 1
    /\ calc.late = 1

\* C12: the late-duration is undefined (not zero) when the check-in is
\* absent or no policy is resolvable, non-negative otherwise, and the row a
\* save writes never holds a negative late-duration.
C12_LateUndefinedOrNonNegative ==
    calc.pc = "done"
    => /\ (calc.rec.checkin_time = NoTime \/ PolicyOf(calc.rec) = NoShift)
            => calc.late = NoDur
       /\ (calc.rec.checkin_time # NoTime /\ PolicyOf(calc.rec) # NoShift)
            => (calc.late # NoDur /\ calc.late >= 0)
       /\ \A w \in {calc.saved, calc.marked} :
             w.late_duration = NoDur \/ w.late_duration >= 0

\* a check-in with no policy resolvable: undefined, and stored as undefined
C12_Witness ==
    /\ calc.pc = "done"
    /\ calc.rec.checkin_time # NoTime
    /\ calc.rec.late_duration = NoDur
    /\ PolicyOf(calc.rec) = NoShift
    /\ calc.late = NoDur
    /\ calc.saved.late_duration = NoDur

\* C13: the classifier returns Absent without timestamps, Pending with
\* exactly one, else Present / Half Day / Early Leave by the worked hours
\* against the policy's thresholds in that order; whether the check-in was
\* late plays no part.
C13_Classifier ==
    calc.pc = "done"
    => calc.status = ExpectedStatus(calc.rec.checkin_time,
                                    calc.rec.checkout_time, PolicyOf(calc.rec))

\* 8 hours worked after a late check-in, present threshold 8: Present
C13_Witness ==
    /\ calc.pc = "done"
    /\ PolicyOf(calc.rec) = 1
    /\ calc.late > 0
    /\ calc.rec.checkout_time - calc.rec.checkin_time = 8 * 3600
    /\ calc.status = "Present"

\* C14: a save of an instance whose status is On Leave, Holiday or Off Day
\* writes that status, whatever its timestamps, also when a biometric event
\* stamped a check-in or check-out on it first.
C14_StickyStatus ==
    (calc.pc = "done" /\ calc.rec.status \in {"On Leave", "Holiday", "Off Day"})
    => /\ calc.saved.status = calc.rec.status
       /\ calc.marked.status = calc.rec.status

\* a biometric check-in written to a Holiday record
C14_Witness ==
    /\ calc.pc = "done"
    /\ calc.rec.status = "Holiday"
    /\ calc.rec.checkin_time = NoTime
    /\ calc.marked.checkin_time = calc.at
    /\ calc.marked.status = "Holiday"

\* ---------------------------------------------------------------- payroll
\* the records of employee e in month m that count: not Holiday, not Off Day
ExpCounted(e, m) ==
    {r \in recs : /\ r.employee = e
                  /\ MonthOf(r.date) = m
                  /\ r.status \notin {"Holiday", "Off Day"}}

\* L: the counted records whose check-in is after the allowed-by instant
ExpLateDays(e, m) ==
    Cardinality({r \in ExpCounted(e, m) :
                    /\ r.checkin_time # NoTime
                    /\ PolicyOf(r) # NoShift
                    /\ r.checkin_time > AllowedBy(r.date, PolicyOf(r))})

AutoFines(e, m) ==
    {a \in adjs : /\ a.is_automatic
                  /\ a.employee = e /\ a.month = m
                  /\ a.adjustment_type = "fine"
                  /\ a.reason = "Attendance Issues Fine"}

AutoBonuses(e, m) ==
    {a \in adjs : /\ a.is_automatic
                  /\ a.employee = e /\ a.month = m
                  /\ a.adjustment_type = "bonus"
                  /\ a.reason = "100% On Time Bonus"}

\* the recompute for (e, m) is the operation that ran last: the reactive
\* one of a save, or a bulk run that went through
Recomputed(e, m) ==
    /\ pay.month = m
    /\ \/ pay.kind = "save" /\ pay.employee = e
       \/ pay.kind = "bulk" /\ ~ pay.failed

Abs(x) == IF x < 0 THEN 0 - x ELSE x

\* C15: after a recompute for (identity, month) an automatic fine row
\* exists if and only if the month has at least 3 late days, whatever the
\* monthly salary, zero included.
C15_FineIffThreeLate ==
    \A e \in Employees, m \in PayMonths :
       Recomputed(e, m) => (AutoFines(e, m) # {} <=> ExpLateDays(e, m) >= 3)

\* C16: after a recompute the automatic fine row holds (salary / 30) *
\* (L div 3), to the minor unit, where L counts the late records among
\* those that are not Holiday or Off Day; salary 3000 with 4 late days
\* gives a fine of 100 and no bonus.
C16_FineAmount ==
    \A e \in Employees, m \in PayMonths :
       Recomputed(e, m)
       => /\ \A a \in AutoFines(e, m) :
                2 * Abs(30 * a.amount - Salary[e] * (ExpLateDays(e, m) \div 3)) <= 30
          /\ (Salary[e] = 300000 /\ ExpLateDays(e, m) = 4)
                => /\ \E a \in AutoFines(e, m) : a.amount = 10000
                   /\ AutoBonuses(e, m) = {}

\* salary 3000, four late days: fine 100, no bonus
C16_Witness ==
    /\ pay.kind = "save"
    /\ pay.employee = "e1"
    /\ ExpLateDays("e1", pay.month) = 4
    /\ \E a \in AutoFines("e1", pay.month) : a.amount = 10000
    /\ AutoBonuses("e1", pay.month) = {}

\* the bonus is earned: a counted record exists, all are Present, none late
ExpBonus(e, m) ==
    /\ ExpCounted(e, m) # {}
    /\ \A r \in ExpCounted(e, m) : r.status = "Present"
    /\ ExpLateDays(e, m) = 0

\* C17: after a recompute for (identity, month) an automatic bonus row of
\* amount 1000 exists if and only if the month has a counted record, every
\* counted record is Present and none is late.
C17_BonusIff ==
    \A e \in Employees, m \in PayMonths :
       Recomputed(e, m)
       => /\ AutoBonuses(e, m) # {} <=> ExpBonus(e, m)
          /\ \A a \in AutoBonuses(e, m) : a.amount = 100000

\* the recompute that ran last, run once more on the state it left
RunAgain ==
    IF pay.kind = "bulk"
    THEN BulkRun(EmployeeOrder, recs, adjs, pay.month, shifts, 0)
    ELSE RecalcMonth(recs, adjs, pay.employee, pay.month, shifts)

\* the automatic rows the recompute that ran last is responsible for
OwnedRows ==
    {a \in adjs : /\ a.is_automatic
                  /\ a.month = pay.month
                  /\ (pay.kind = "bulk" \/ a.employee = pay.employee)}

\* C18 (as claimed): a recompute run a second time with no attendance
\* change in between leaves the SalaryAdjustment rows as the first run left
\* them and performs no row mutation.
C18_SecondRunNoMutation ==
    pay.kind \in {"save", "bulk"}
    => /\ RunAgain.adjs = adjs
       /\ RunAgain.writes = 0

\* C18 (amended): the second run leaves the rows as the first run left
\* them; it saves again, with the values it already holds, every automatic
\* row that is still due, and creates and deletes none.
C18_SecondRunSameState ==
    pay.kind \in {"save", "bulk"}
    => /\ RunAgain.adjs = adjs
       /\ ~ RunAgain.failed => RunAgain.writes = Cardinality(OwnedRows)

\* a bulk run left an automatic fine row
C18_Witness ==
    /\ pay.kind = "bulk"
    /\ ~ pay.failed
    /\ AutoFines("e1", pay.month) # {}

\* C19: no recompute, reactive or bulk, creates, changes or deletes a row
\* whose automatic flag is false.
C19_ManualUntouched ==
    [][{a \in adjs' : ~ a.is_automatic} = {a \in adjs : ~ a.is_automatic}]_vars

\* a recompute found the bonus earned while a manual row held its reason
C19_Witness ==
    /\ ManualTwin \in adjs
    /\ pay.kind \in {"save", "bulk"}
    /\ ExpBonus("e1", pay.month)

\* C20: in every state, also while two recomputes for the same identity
\* and month run concurrently, no two SalaryAdjustment rows share
\* (identity, month, reason, kind), and an identity has at most one
\* automatic bonus row and one automatic fine row per month.
C20_UniqueAdjustments ==
    /\ \A a \in adjs, b \in adjs :
          (/\ a.employee = b.employee /\ a.month = b.month
           /\ a.reason = b.reason /\ a.adjustment_type = b.adjustment_type)
          => a = b
    /\ \A e \in Employees, m \in PayMonths, t \in {"bonus", "fine"} :
          Cardinality({a \in adjs : /\ a.is_automatic
                                    /\ a.employee = e /\ a.month = m
                                    /\ a.adjustment_type = t}) <= 1

\* ------------------------------------------------- recompute and ledger
\* C21: when the recompute fails during an attendance save (its create
\* meets a manual row of the same key), the attendance write still
\* succeeds: the record is on record with the timestamps and status saved,
\* and no error is reported.
C21_WriteSurvivesFailure ==
    (pay.kind \in {"save", "error"} /\ pay.failed)
    => /\ pay.rec \in recs
       /\ pay.kind = "save"

\* the amount of the fine the records of (e, m) earn
ExpFineAmount(e, m) == RoundHalfEven(Salary[e] * (ExpLateDays(e, m) \div 3), 30)

\* C22: after every save of a record of identity i in month m whose
\* recompute did not fail, the record is on record and the automatic fine
\* and bonus rows of (i, m) are the ones earned by all records of the month,
\* the one just saved included.
C22_RowsFollowSave ==
    (pay.kind = "save" /\ ~ pay.failed)
    => /\ pay.rec \in recs
       /\ AutoFines(pay.employee, pay.month) # {}
             <=> ExpFineAmount(pay.employee, pay.month) > 0
       /\ \A a \in AutoFines(pay.employee, pay.month) :
             /\ a.amount = ExpFineAmount(pay.employee, pay.month)
             /\ a.comments = ExpLateDays(pay.employee, pay.month)
       /\ AutoBonuses(pay.employee, pay.month) # {}
             <=> ExpBonus(pay.employee, pay.month)
       /\ \A a \in AutoBonuses(pay.employee, pay.month) : a.amount = 100000

\* the record just saved is the third late one of its month, and the fine
\* row is there
C22_Witness ==
    /\ pay.kind = "save"
    /\ ~ pay.failed
    /\ pay.rec \in recs
    /\ pay.rec.checkin_time > AllowedBy(pay.rec.date, PolicyOf(pay.rec))
    /\ ExpLateDays(pay.employee, pay.month) = 3
    /\ AutoFines(pay.employee, pay.month) # {}

\* C23: in every state reached when a ledger operation has completed (a
\* record save, a record deletion, a holiday expand or retract), an
\* automatic fine or bonus row exists only if the current records of its
\* identity and month earn it.
C23_RowsEarned ==
    \A e \in Employees, m \in PayMonths :
       /\ AutoFines(e, m) # {} => ExpFineAmount(e, m) > 0
       /\ AutoBonuses(e, m) # {} => ExpBonus(e, m)

\* the bulk run dealt with identity e: its automatic rows of the month are
\* the ones its records earn
BulkProcessed(e) ==
    /\ AutoFines(e, pay.month) # {} <=> ExpFineAmount(e, pay.month) > 0
    /\ AutoBonuses(e, pay.month) # {} <=> ExpBonus(e, pay.month)

\* the automatic rows of month m in the table as
MonthAuto(as, m) == {a \in as : a.is_automatic /\ a.month = m}

\* the rows of before that have no successor in after
Deleted(before, after) ==
    {a \in before : ~ \E b \in after : /\ b.employee = a.employee
                                        /\ b.adjustment_type = a.adjustment_type
                                        /\ b.reason = a.reason}

\* C24: a bulk recompute for (year, month) processes every identity and
\* returns the number of automatic rows it created, updated or deleted.
C24_BulkCount ==
    [][pay'.kind = "bulk"
       => /\ ~ pay'.failed
          /\ (\A e \in Employees : BulkProcessed(e))'
          /\ pay'.count
               = Cardinality(MonthAuto(adjs', pay'.month))
                 + Cardinality(Deleted(MonthAuto(adjs, pay'.month),
                                       MonthAuto(adjs', pay'.month)))]_vars

\* --------------------------------------------------------------- holidays
\* (e, d) is a pair of the scope and the range of holiday h
InScope(h, e, d) ==
    /\ e \in HolidayCfg[h].employees
    /\ d >= HolidayCfg[h].start_date
    /\ d <= HolidayCfg[h].end_date

\* the dates the holiday definitions cover
HolidayDates == StartDay..(StartDay + HolidayDays - 1)

\* a record an expansion created
Expanded(r) == r.pk > HolidayDays

\* C25: expanding an active holiday creates a Holiday record for exactly
\* those (identity in scope, date in range) pairs that have no record, and
\* leaves every existing record unchanged.
C25_ExpandFillsGaps ==
    [][\A h \in HolidayDefs :
          HolidaySave(h, TRUE)
          => /\ recs \subseteq recs'
             /\ \A r \in recs' \ recs :
                   /\ r.status = "Holiday"
                   /\ InScope(h, r.employee, r.date)
                   /\ RecordsOf(recs, r.employee, r.date) = {}
             /\ \A e \in Employees, d \in HolidayDates :
                   (InScope(h, e, d) /\ RecordsOf(recs, e, d) = {})
                   => Cardinality(RecordsOf(recs', e, d)) = 1]_vars

\* the second holiday is expanded: e2 got a Holiday record, and a day of
\* e1 that was entered before is on record as it was
C25_Witness ==
    /\ holidays[2].is_active
    /\ \E r \in recs : /\ Expanded(r) /\ r.employee = "e2"
                        /\ r.status = "Holiday"
    /\ \E r \in recs : /\ ~ Expanded(r) /\ InScope(2, r.employee, r.date)
                        /\ r.status = "Present"

\* C26: retracting a holiday (saving it inactive, or deleting it) deletes
\* only records whose status is exactly Holiday and that lie in its scope
\* and range; every other record and every adjustment is unchanged.
C26_RetractOnlyHoliday ==
    [][\A h \in HolidayDefs :
          (HolidaySave(h, FALSE) \/ HolidayDelete(h))
          => /\ recs' \subseteq recs
             /\ \A r \in recs \ recs' :
                   /\ r.status = "Holiday"
                   /\ InScope(h, r.employee, r.date)
             /\ adjs' = adjs]_vars

\* the first holiday is inactive, a record an expansion created is gone,
\* and a record of another status in its scope and range is still there
C26_Witness ==
    /\ holidays[1].exists
    /\ ~ holidays[1].is_active
    /\ \E pk \in (HolidayDays + 1)..(nextPk - 1) : \A r \in recs : r.pk # pk
    /\ \A r \in recs : InScope(1, r.employee, r.date) => r.status # "Holiday"
    /\ \E r \in recs : InScope(1, r.employee, r.date)

\* C27: the holiday batch processor never deletes a record that holds a
\* check-in or a check-out, such as a Holiday record on which the identity
\* later checked in.
C27_StampedSurvive ==
    [][\A h \in HolidayDefs :
          (HolidaySave(h, TRUE) \/ HolidaySave(h, FALSE) \/ HolidayDelete(h))
          => \A r \in recs :
                (r.checkin_time # NoTime \/ r.checkout_time # NoTime)
                => r \in recs']_vars

\* C28: deactivating a holiday removes only the Holiday records its own
\* expansion created, so that activating an inactive holiday and then
\* deactivating it again restores the records that were there before.
C28_RetractRestores ==
    \A h \in HolidayDefs :
       (holidays[h].exists /\ ~ holidays[h].is_active)
       => \A st \in {ProcessHolidayRecords(h, recs, adjs, nextPk, shifts)} :
             RemoveHolidayRecords(h, st.recs) = recs

\* C29: expanding a holiday twice gives what expanding it once gives, and
\* so does retracting it twice.
C29_Idempotent ==
    \A h \in HolidayDefs :
       /\ \A st \in {ProcessHolidayRecords(h, recs, adjs, nextPk, shifts)} :
             ProcessHolidayRecords(h, st.recs, st.adjs, st.nextPk, shifts) = st
       /\ RemoveHolidayRecords(h, RemoveHolidayRecords(h, recs))
             = RemoveHolidayRecords(h, recs)

\* the first holiday is expanded, and expanding it again creates nothing
C29_Witness ==
    /\ holidays[1].is_active
    /\ \E r \in recs : /\ Expanded(r) /\ r.status = "Holiday"
                        /\ InScope(1, r.employee, r.date)
    /\ ProcessHolidayRecords(1, recs, adjs, nextPk, shifts).recs = recs

\* --------------------------------------------------------------- matching
\* the registry the match ran on
Registry == LoadKnownEncodings(calc.rows)

\* the distance of the identity the match returned
ReturnedDistance ==
    Registry[CHOOSE i \in 1..Len(Registry) :
                Registry[i].employee = calc.result.employee].distance

\* the same rows in another order
Reordered(known, p) == [i \in 1..Len(known) |-> known[p[i]]]

Orders(n) == {p \in [1..n -> 1..n] : \A i \in 1..n, j \in 1..n : p[i] = p[j] => i = j}

\* C30 (as claimed): for a non-empty registry the match returns the
\* enrolled identity with the minimum distance among those whose distance
\* is below the tolerance 0.5, whatever the iteration order, and never an
\* identity whose distance is not below the tolerance.
C30_MinBelowTolerance ==
    (calc.pc = "done" /\ Registry # <<>>)
    => /\ calc.result.employee # NoEmployee => ReturnedDistance < Tolerance
       /\ (\E i \in 1..Len(Registry) : Registry[i].distance < Tolerance)
            => /\ calc.result.employee # NoEmployee
               /\ \A i \in 1..Len(Registry) :
                     ReturnedDistance <= Registry[i].distance
       /\ \A p \in Orders(Len(Registry)) :
             FindBestMatch(Reordered(Registry, p)).employee = calc.result.employee

\* C30 (amended): the match returns an identity if and only if some
\* enrolled distance is at most the tolerance 0.5; the identity returned
\* has the minimum distance of the registry, which is then at most the
\* tolerance; in every iteration order the identity returned is at that
\* distance, and among several identities at the minimum the first in
\* iteration order is returned.
C30_MinWithinTolerance ==
    (calc.pc = "done" /\ Registry # <<>>)
    => /\ calc.result.employee # NoEmployee
            <=> \E i \in 1..Len(Registry) : Registry[i].distance <= Tolerance
       /\ calc.result.employee # NoEmployee
            => /\ ReturnedDistance <= Tolerance
               /\ \A i \in 1..Len(Registry) :
                     ReturnedDistance <= Registry[i].distance
               /\ \A i \in 1..Len(Registry) :
                     Registry[i].distance = ReturnedDistance
                     => \E j \in 1..i : Registry[j].employee = calc.result.employee
               /\ \A p \in Orders(Len(Registry)) :
                     \E i \in 1..Len(Registry) :
                        /\ Registry[i].distance = ReturnedDistance
                        /\ FindBestMatch(Reordered(Registry, p)).employee
                             = Registry[i].employee

\* distances 0.2, 0.6, 0.1: the identity at 0.1 is returned
C30_Witness ==
    /\ calc.pc = "done"
    /\ Len(Registry) = 3
    /\ Registry[1].distance = 20
    /\ Registry[2].distance = 60
    /\ Registry[3].distance = 10
    /\ calc.result.employee = Registry[3].employee

\* ------------------------------------------------------- capture requests
\* the valid encodings a request with this probe is matched against
KnownFor(probe) == LoadKnownEncodings(Probed(calc.rows, probe))

NoEnrollments == MatchFailure("No employees with registered face encodings.")
NotRecognized == MatchFailure("Face not recognized.")

\* C31 (as claimed): a capture request fails with NoEnrollments when no
\* enrolled vector exists and with NotRecognized when no enrolled vector is
\* below the tolerance; in both cases no AttendanceRecord is created or
\* modified and no SalaryAdjustment row changes.
C31_FailsBelowTolerance ==
    [][\A probe \in CaptureProbes, dev \in ConcDevices :
          Capture(probe, dev)
          => /\ KnownFor(probe) = <<>>
                  => (resp' = NoEnrollments /\ UNCHANGED <<recs, adjs>>)
             /\ (/\ KnownFor(probe) # <<>>
                 /\ \A i \in 1..Len(KnownFor(probe)) :
                       ~ (KnownFor(probe)[i].distance < Tolerance))
                  => (resp' = NotRecognized /\ UNCHANGED <<recs, adjs>>)]_vars

\* C31 (amended): a capture request fails with NoEnrollments exactly when
\* no enrolled vector of the fixed dimension exists, and with
\* NotRecognized exactly when such vectors exist and none is within the
\* tolerance (a distance of at most 0.5); in both cases no
\* AttendanceRecord is created or modified and no SalaryAdjustment row
\* changes.
C31_FailsOutsideTolerance ==
    [][\A probe \in CaptureProbes, dev \in ConcDevices :
          Capture(probe, dev)
          => /\ resp' = NoEnrollments <=> KnownFor(probe) = <<>>
             /\ resp' = NotRecognized
                  <=> /\ KnownFor(probe) # <<>>
                      /\ \A i \in 1..Len(KnownFor(probe)) :
                            KnownFor(probe)[i].distance > Tolerance
             /\ resp' \in {NoEnrollments, NotRecognized}
                  => UNCHANGED <<recs, adjs, nextPk>>]_vars

\* a stranger was turned away while an employee was checked in
C31_Witness ==
    /\ resp = NotRecognized
    /\ calc.pc = "done"
    /\ \A i \in 1..Len(calc.rows) : calc.probe[calc.rows[i].employee] > Tolerance
    /\ \E r \in recs : r.checkin_time # NoTime /\ r.checkout_time = NoTime

\* ---------------------------------------------------- encodings of a wrong shape
\* the rows without row i
WithoutRow(rows, i) ==
    [j \in 1..(Len(rows) - 1) |-> IF j < i THEN rows[j] ELSE rows[j + 1]]

\* C32: an enrolled vector whose dimension is not 128 takes no part in
\* matching: the identity that owns it is never returned, and the identity
\* returned is the same whatever the distance of that vector to the probe
\* is, and the same as when the vector is not enrolled at all.
C32_BadVectorsInert ==
    calc.pc = "done"
    => \A i \in 1..Len(calc.rows) :
          ~ calc.rows[i].ok
          => /\ calc.result.employee # calc.rows[i].employee
             /\ \A d \in Distances :
                   FindBestMatch(LoadKnownEncodings(
                       [calc.rows EXCEPT ![i].distance = d])) = calc.result
             /\ Len(calc.rows) > 1
                  => FindBestMatch(LoadKnownEncodings(WithoutRow(calc.rows, i))).employee
                       = calc.result.employee

\* the closest vector has a wrong shape and the owner of the second
\* closest one is returned
C32_Witness ==
    /\ calc.pc = "done"
    /\ Len(calc.rows) = 3
    /\ ~ calc.rows[1].ok /\ calc.rows[1].distance = 10
    /\ calc.rows[2].ok /\ calc.rows[2].distance = 60
    /\ calc.rows[3].ok /\ calc.rows[3].distance = 20
    /\ calc.result.employee = calc.rows[3].employee

\* ------------------------------------------------ check-out before check-in
\* C33: when the check-out precedes the check-in the classifier returns,
\* without raising, the status the thresholds give for exactly 0 worked
\* hours; for a policy whose half-day threshold is 0 that status is not
\* Early Leave.
C33_NegativeWorkedAsZero ==
    (/\ calc.pc = "done"
     /\ calc.rec.checkin_time # NoTime
     /\ calc.rec.checkout_time # NoTime
     /\ calc.rec.checkout_time < calc.rec.checkin_time)
    => calc.status = ExpectedStatus(calc.rec.checkin_time,
                                    calc.rec.checkin_time, PolicyOf(calc.rec))

\* --------------------------------------------------- no resolvable policy
\* C34: saving a record that has both timestamps but no resolvable policy
\* (no snapshot and no active policy) does not raise and writes the record
\* with late-duration undefined and status Pending.
C34_NoPolicyPending ==
    (/\ calc.pc = "done"
     /\ calc.rec.checkin_time # NoTime
     /\ calc.rec.checkout_time # NoTime
     /\ calc.rec.status \notin ManualStatuses
     /\ PolicyOf(calc.rec) = NoShift)
    => /\ calc.saved.late_duration = NoDur
       /\ calc.saved.status = "Pending"

\* --------------------------------------------------------- late indicator
\* C35: in every reachable state the late indicator that payroll uses for
\* a record is true exactly when the record's persisted late-duration is
\* greater than zero.
C35_IndicatorIsPersistedLate ==
    \A r \in recs :
       IsLateIndicator(r, shifts)
         <=> (r.late_duration # NoDur /\ r.late_duration > 0)

\* ------------------------------------------------- reactive against bulk
\* the automatic rows of (e, m) in the table as
AutoOf(as, e, m) == {a \in MonthAuto(as, m) : a.employee = e}

\* C36: for every identity and month, the reactive recompute fired by a
\* record save and the bulk recompute for that month, run on the same
\* records, salary and policies, produce the same automatic rows.
C36_ReactiveEqualsBulk ==
    \A e \in Employees, m \in PayMonths :
       AutoOf(RecalcMonth(recs, adjs, e, m, shifts).adjs, e, m)
         = AutoOf(BulkRun(EmployeeOrder, recs, adjs, m, shifts, 0).adjs, e, m)

\* ----------------------------------------------- events and calendar dates
\* C37: when records are written only by biometric events, one at a time,
\* every record with a check-out has a check-in, and the check-out is at
\* least one hour after it.
C37_CheckoutAfterCooldown ==
    \A r \in recs :
       r.checkout_time # NoTime
       => /\ r.checkin_time # NoTime
          /\ r.checkout_time - r.checkin_time >= CooldownHours * SecondsPerHour

\* a check-out exactly one hour after the check-in
C37_Witness ==
    \E r \in recs :
       /\ r.checkin_time # NoTime
       /\ r.checkout_time = r.checkin_time + CooldownHours * SecondsPerHour

\* the employee a request with this probe is recognised as
MatchedFor(probe) == FindBestMatch(KnownFor(probe)).employee

\* C39: a biometric event reads and writes only the record of its own
\* calendar date: the records of other dates are unchanged by it, a record
\* left with a check-in and no check-out on an earlier date stays so, with
\* status Pending, and the first event of an employee on a date is a
\* check-in at the instant of the event, however recent the check-in of the
\* date before.
C39_OwnDateOnly ==
    [][\A probe \in CaptureProbes, dev \in ConcDevices :
          Capture(probe, dev)
          => /\ {r \in recs : r.date # DateOf(now)}
                  = {r \in recs' : r.date # DateOf(now)}
             /\ \A r \in recs' :
                   (/\ r.date < DateOf(now)
                    /\ r.checkin_time # NoTime
                    /\ r.checkout_time = NoTime)
                   => r.status = "Pending"
             /\ (/\ MatchedFor(probe) # NoEmployee
                 /\ RecordsOf(recs, MatchedFor(probe), DateOf(now)) = {})
                  => /\ resp' = Resp("IN", MatchedFor(probe), 0)
                     /\ \E r \in recs' :
                           /\ r.employee = MatchedFor(probe)
                           /\ r.date = DateOf(now)
                           /\ r.checkin_time = now
                           /\ r.checkout_time = NoTime]_vars

\* a check-in half an hour after the check-in of the date before, which
\* is still without check-out
C39_Witness ==
    /\ resp.check_type = "IN"
    /\ \E r \in recs, y \in recs :
          /\ r.employee = resp.employee /\ y.employee = resp.employee
          /\ r.date = DateOf(now) /\ y.date = DateOf(now) - 1
          /\ r.checkin_time = now
          /\ y.checkin_time = now - 30 * SecondsPerMinute
          /\ y.checkout_time = NoTime
          /\ y.status = "Pending"

\* --------------------------------------------------- frame of a recompute
\* the rows of the table as other than the automatic rows of (e, m)
OtherRows(as, e, m) ==
    {a \in as : ~ (a.is_automatic /\ a.employee = e /\ a.month = m)}

\* C38: the saves of a record of identity i in month m create, update or
\* delete SalaryAdjustment rows only among the automatic rows of (i, m),
\* every other row is unchanged; a bulk recompute for month m changes no
\* row of another month.
C38_RecomputeFrame ==
    [][/\ \A probe \in FrameProbes, dev \in ConcDevices :
             Capture(probe, dev)
             => OtherRows(adjs', MatchedFor(probe), MonthOf(DateOf(now)))
                  = OtherRows(adjs, MatchedFor(probe), MonthOf(DateOf(now)))
       /\ \A m \in FrameMonths :
             BulkRecompute(m)
             => {a \in adjs' : a.month # m} = {a \in adjs : a.month # m}]_vars

\* a check-in on the first day of a month, and a bulk recompute for that
\* month, with the automatic bonus of the month before on record
C38_Witness ==
    /\ pay.kind = "bulk"
    /\ pay.month = MonthOf(StartDay) + 1
    /\ \E r \in recs :
          /\ MonthOf(r.date) = pay.month
          /\ BonusRow(r.employee, MonthOf(StartDay)) \in adjs
    /\ ManualRow \in adjs

====
